---- MODULE Spec2Model ----
(***************************************************************************)
(* Screenplay parsing pipeline of movai-bk.                                *)
(*                                                                         *)
(* A JavaScript string is modelled as a sequence of one-character tokens   *)
(* (<<"I","N","T",".">>), so that split, trim, replace and the regular     *)
(* expressions of the parsers are computed character by character.         *)
(* Characters outside ASCII are written as bracketed tokens ("[a-circ]").  *)
(***************************************************************************)
EXTENDS Integers, Sequences, FiniteSets, TLC

VARIABLES pc, text, totalPages, tier, textPages, analyzedPages, scenes,
          characters, metadata, docScenes, segPages, calls

vars == <<pc, text, totalPages, tier, textPages, analyzedPages, scenes,
          characters, metadata, docScenes, segPages, calls>>

(***************************************************************************)
(* Characters and character classes                                        *)
(***************************************************************************)
UpperChars == <<"A","B","C","D","E","F","G","H","I","J","K","L","M",
                "N","O","P","Q","R","S","T","U","V","W","X","Y","Z">>

LowerChars == <<"a","b","c","d","e","f","g","h","i","j","k","l","m",
                "n","o","p","q","r","s","t","u","v","w","x","y","z">>

UpperSet == {UpperChars[i] : i \in DOMAIN UpperChars}

LowerSet == {LowerChars[i] : i \in DOMAIN LowerChars}

LetterSet == UpperSet \cup LowerSet

DigitSet == {"0","1","2","3","4","5","6","7","8","9"}

\* \s of a JavaScript regular expression, and what String.prototype.trim strips
SpaceSet == {" ", "\t", "\n", "\r", "\f"}

\* letters, digits, white space, punctuation and the non-ASCII characters the
\* parsers mention
Alphabet ==
  LetterSet \cup DigitSet \cup SpaceSet
  \cup {".", ",", ":", ";", "!", "?", "'", "\"", "(", ")", "-", "/", "_"}
  \cup {"[a-circ]", "[euro]", "[tm]", "[oe]", "[A-tilde]", "[en-dash]",
        "[em-dash]", "[a-grave]", "[e-grave]", "[e-acute]", "[i-grave]",
        "[o-grave]", "[u-grave]", "[uml]", "[copy]", "[not]", "[sup2]",
        "[sup1]"}

\* . of a JavaScript regular expression
AnyChar == Alphabet \ {"\n", "\r"}

DashSet == {"-", "[en-dash]", "[em-dash]"}

\* the upper-case form of each lower-case letter
RECURSIVE upperTable(_)
upperTable(i) ==
  IF i = Len(LowerChars) THEN LowerChars[i] :> UpperChars[i]
  ELSE (LowerChars[i] :> UpperChars[i]) @@ upperTable(i + 1)

UpperMap == upperTable(1)

\* String.prototype.toUpperCase
RECURSIVE toUpperCase(_)
toUpperCase(s) ==
  IF Len(s) = 0 THEN <<>>
  ELSE <<IF s[1] \in LowerSet THEN UpperMap[s[1]] ELSE s[1]>> \o toUpperCase(Tail(s))

(***************************************************************************)
(* String primitives                                                       *)
(***************************************************************************)
\* String.prototype.trim
trim(s) ==
  IF \A i \in 1..Len(s) : s[i] \in SpaceSet
    THEN <<>>
    ELSE LET a == CHOOSE i \in 1..Len(s) :
                    s[i] \notin SpaceSet /\ \A j \in 1..(i-1) : s[j] \in SpaceSet
             b == CHOOSE i \in 1..Len(s) :
                    s[i] \notin SpaceSet /\ \A j \in (i+1)..Len(s) : s[j] \in SpaceSet
         IN  SubSeq(s, a, b)

\* String.prototype.split with a one-character separator
RECURSIVE split(_, _)
split(s, sep) ==
  IF \A i \in 1..Len(s) : s[i] # sep
    THEN <<s>>
    ELSE LET k == CHOOSE i \in 1..Len(s) :
                    s[i] = sep /\ \A j \in 1..(i-1) : s[j] # sep
         IN  <<SubSeq(s, 1, k-1)>> \o split(SubSeq(s, k+1, Len(s)), sep)

\* Array.prototype.join
RECURSIVE join(_, _)
join(parts, sep) ==
  IF Len(parts) = 0 THEN <<>>
  ELSE IF Len(parts) = 1 THEN parts[1]
  ELSE parts[1] \o sep \o join(Tail(parts), sep)

\* the literal w occurs in s at position p
OccursAt(s, w, p) ==
  /\ p + Len(w) - 1 <= Len(s)
  /\ \A i \in 1..Len(w) : s[p + i - 1] = w[i]

\* String.prototype.includes
includes(s, w) == \E p \in 1..(Len(s) + 1) : OccursAt(s, w, p)

\* String.prototype.replace with a global literal pattern
RECURSIVE replaceAll(_, _, _)
replaceAll(s, pat, rep) ==
  IF \A p \in 1..Len(s) : ~OccursAt(s, pat, p) THEN s
  ELSE LET k == CHOOSE p \in 1..Len(s) :
                  OccursAt(s, pat, p) /\ \A q \in 1..(p - 1) : ~OccursAt(s, pat, q)
       IN  SubSeq(s, 1, k - 1) \o rep
             \o replaceAll(SubSeq(s, k + Len(pat), Len(s)), pat, rep)

\* String(n) for a natural number
RECURSIVE String(_)
String(n) ==
  LET d == <<"0","1","2","3","4","5","6","7","8","9">>[(n % 10) + 1]
  IN  IF n < 10 THEN <<d>> ELSE String(n \div 10) \o <<d>>

\* parseInt of a string of digits followed by anything
RECURSIVE parseInt(_)
parseInt(s) ==
  LET k == Cardinality({n \in 1..Len(s) : \A m \in 1..n : s[m] \in DigitSet})
  IN  IF k = 0 THEN 0
      ELSE 10 * parseInt(SubSeq(s, 1, k - 1))
           + (CHOOSE v \in 0..9 : String(v) = <<s[k]>>)

(***************************************************************************)
(* Regular expressions: a pattern is a sequence of elements, each a        *)
(* character class with a repetition range (max = -1: unbounded) or a set  *)
(* of alternative literals compared case-insensitively.  Run returns the   *)
(* positions at which a match that started in P can end.                   *)
(***************************************************************************)
Cls(chars, min, max) == [k |-> "c", chars |-> chars, min |-> min, max |-> max]

Alt(words) == [k |-> "w", words |-> {toUpperCase(w) : w \in words}]

\* u is s in upper case
StepElem(e, s, u, P) ==
  IF P = {} THEN {}
  ELSE IF e.k = "c"
    THEN {q \in 1..(Len(s) + 1) :
            \E p \in P : /\ q - p >= e.min
                         /\ (e.max < 0 \/ q - p <= e.max)
                         /\ \A i \in p..(q-1) : s[i] \in e.chars}
    ELSE {pw[1] + Len(pw[2]) :
            pw \in {x \in P \X e.words : OccursAt(u, x[2], x[1])}}

RECURSIVE RunFrom(_, _, _, _, _)
RunFrom(pat, k, s, u, P) ==
  IF k > Len(pat) \/ P = {} THEN P
  ELSE RunFrom(pat, k + 1, s, u, StepElem(pat[k], s, u, P))

Run(pat, k, s, P) == RunFrom(pat, k, s, toUpperCase(s), P)

\* /^pat/.test(s)
TestPrefix(pat, s) == Run(pat, 1, s, {1}) # {}

\* /^pat$/.test(s)
TestFull(pat, s) == (Len(s) + 1) \in Run(pat, 1, s, {1})

\* /pat/.test(s)
TestAnywhere(pat, s) ==
  LET u == toUpperCase(s)
  IN  \E p \in 1..(Len(s) + 1) : RunFrom(pat, 1, s, u, {p}) # {}

(***************************************************************************)
(* AdvancedScriptParser: line predicates (script.controller.js)            *)
(***************************************************************************)
HeadingPrefixes == {<<"I","N","T">>, <<"E","X","T">>, <<"I","N","T","/","E","X","T">>, <<"I","/","E">>}

TimesOfDay ==
  {<<"D","A","Y">>, <<"N","I","G","H","T">>, <<"L","A","T","E","R">>, <<"M","O","R","N","I","N","G">>, <<"E","V","E","N","I","N","G">>, <<"D","A","W","N">>, <<"D","U","S","K">>,
   <<"C","O","N","T","I","N","U","O","U","S">>, <<"S","A","M","E"," ","T","I","M","E">>, <<"M","O","M","E","N","T","S"," ","L","A","T","E","R">>, <<"A","F","T","E","R","N","O","O","N">>, <<"S","U","N","S","E","T">>,
   <<"S","U","N","R","I","S","E">>}

\* ^(INT\.?|EXT\.?|INT\/EXT\.?|I\/E\.?)\s+
HeadingStart == <<Alt(HeadingPrefixes), Cls({"."}, 0, 1), Cls(SpaceSet, 1, -1)>>

\* pattern1: ...\s+.+\s*[-en-dash em-dash]\s*(DAY|NIGHT|...)
\* pattern2: ...\s+.+\.\s*(DAY|NIGHT|...)
\* pattern3: ...\s+[A-Z\s']{3,}
headingPatterns(times) ==
  <<HeadingStart \o <<Cls(AnyChar, 1, -1), Cls(SpaceSet, 0, -1), Cls(DashSet, 1, 1),
                      Cls(SpaceSet, 0, -1), Alt(times)>>,
    HeadingStart \o <<Cls(AnyChar, 1, -1), Cls({"."}, 1, 1), Cls(SpaceSet, 0, -1),
                      Alt(times)>>,
    HeadingStart \o <<Cls(LetterSet \cup SpaceSet \cup {"'"}, 3, -1)>> >>

scenePatterns == headingPatterns(TimesOfDay)

\* the patterns share their start, so a line that fails it matches none
isSceneHeading(line) ==
  LET u == toUpperCase(line)
      P == RunFrom(HeadingStart, 1, line, u, {1})
  IN  /\ P # {}
      /\ \E n \in 1..3 : RunFrom(scenePatterns[n], 1, line, u, {1}) # {}

isTransition(line) ==
  LET u == toUpperCase(line)
      transitions ==
        {<<"F","A","D","E"," ","O","U","T">>, <<"F","A","D","E"," ","I","N">>, <<"C","U","T"," ","T","O">>, <<"D","I","S","S","O","L","V","E"," ","T","O">>, <<"S","M","A","S","H"," ","C","U","T"," ","T","O">>,
        <<"M","A","T","C","H"," ","C","U","T"," ","T","O">>, <<"J","U","M","P"," ","C","U","T"," ","T","O">>, <<"W","I","P","E"," ","T","O">>, <<"I","R","I","S"," ","O","U","T">>, <<"I","R","I","S"," ","I","N">>,
        <<"T","H","E"," ","E","N","D">>, <<"C","O","N","T","I","N","U","E","D">>, <<"T","O"," ","B","E"," ","C","O","N","T","I","N","U","E","D">>}
  IN  \E t \in transitions : includes(u, t)

isParenthetical(line) ==
  Len(line) > 0 /\ line[1] = "(" /\ line[Len(line)] = ")"

\* /^\d{1,3}\.?$/
isPageNumber(line) ==
  TestFull(<<Cls(DigitSet, 1, 3), Cls({"."}, 0, 1)>>, trim(line))

\* /^-*\s*\d+\s+of\s+\d+\s*-*$/i and /^Page\s+\d+$/i
footerPatterns ==
  <<<<Cls({"-"}, 0, -1), Cls(SpaceSet, 0, -1), Cls(DigitSet, 1, -1),
      Cls(SpaceSet, 1, -1), Alt({<<"o","f">>}), Cls(SpaceSet, 1, -1),
      Cls(DigitSet, 1, -1), Cls(SpaceSet, 0, -1), Cls({"-"}, 0, -1)>>,
    <<Alt({<<"P","a","g","e">>}), Cls(SpaceSet, 1, -1), Cls(DigitSet, 1, -1)>> >>

isPageFooter(line) == \E n \in 1..2 : TestFull(footerPatterns[n], line)

\* replace(/\([^)]*\)/g, '')
RECURSIVE removeParens(_)
removeParens(s) ==
  IF Len(s) = 0 THEN <<>>
  ELSE IF s[1] = "(" /\ \E j \in 2..Len(s) : s[j] = ")"
    THEN LET j == CHOOSE j \in 2..Len(s) :
                    s[j] = ")" /\ \A i \in 2..(j-1) : s[i] # ")"
         IN  removeParens(SubSeq(s, j + 1, Len(s)))
    ELSE <<s[1]>> \o removeParens(Tail(s))

\* replace(/\s+/g, ' ')
RECURSIVE collapseSpaces(_)
collapseSpaces(s) ==
  IF Len(s) = 0 THEN <<>>
  ELSE IF s[1] \in SpaceSet
    THEN IF Len(s) > 1 /\ s[2] \in SpaceSet
           THEN collapseSpaces(Tail(s))
           ELSE <<" ">> \o collapseSpaces(Tail(s))
    ELSE <<s[1]>> \o collapseSpaces(Tail(s))

\* the cue kept as written, parenthetical extension included
cueAsWritten(line) == trim(collapseSpaces(line))

cleanCharacterName(line) ==
  trim(replaceAll(collapseSpaces(removeParens(line)),
                  <<"[a-circ]", "[euro]", "[tm]">>, <<"'">>))

\* /^[A-Z][A-Z\s'.-]*$/
characterPattern ==
  <<Cls(UpperSet, 1, 1), Cls(UpperSet \cup SpaceSet \cup {"'", ".", "-"}, 0, -1)>>

\* /^[A-Z]\.[A-Z]\.?/
initialsPattern ==
  <<Cls(UpperSet, 1, 1), Cls({"."}, 1, 1), Cls(UpperSet, 1, 1), Cls({"."}, 0, 1)>>

looksLikeCharacterName(line) ==
  LET trimmed == trim(line)
      withoutParens == trim(removeParens(trimmed))
  IN  /\ ~(Len(trimmed) < 2 \/ Len(trimmed) > 50)
      /\ ~(Len(withoutParens) = 0 \/ \A i \in 1..Len(withoutParens) :
                                        withoutParens[i] \notin UpperSet)
      /\ TestFull(characterPattern, withoutParens)
      /\ ~(includes(withoutParens, <<".">>)
             /\ ~TestPrefix(initialsPattern, withoutParens))
      /\ ~(isSceneHeading(trimmed) \/ isTransition(trimmed))

\* /^(Yes|No|Hello|...)/i
conversationalPattern ==
  <<Alt({<<"Y","e","s">>, <<"N","o">>, <<"H","e","l","l","o">>, <<"H","i">>, <<"H","e","y">>, <<"W","h","a","t">>, <<"H","o","w">>, <<"W","h","y">>, <<"W","h","e","r","e">>,
         <<"W","h","e","n">>, <<"W","h","o">>})>>

\* /(I|you|he|she|we|they|it)\s/i
pronounPattern ==
  <<Alt({<<"I">>, <<"y","o","u">>, <<"h","e">>, <<"s","h","e">>, <<"w","e">>, <<"t","h","e","y">>, <<"i","t">>}),
    Cls(SpaceSet, 1, 1)>>

looksLikeDialogue(t) ==
  \/ includes(t, <<"\"">>) \/ includes(t, <<"'">>)
  \/ TestPrefix(conversationalPattern, t)
  \/ (Len(t) > 0 /\ t[Len(t)] \in {".", "!", "?"})
  \/ TestAnywhere(pronounPattern, t)

\* lines are numbered from 1 here: currentIndex is the JavaScript index + 1
RECURSIVE dialogueFrom(_, _, _)
dialogueFrom(allLines, i, last) ==
  IF i > last THEN FALSE
  ELSE LET nextText == trim(allLines[i])
       IN  IF Len(nextText) = 0 THEN dialogueFrom(allLines, i + 1, last)
           ELSE IF looksLikeCharacterName(nextText) \/ isSceneHeading(nextText)
             THEN FALSE
           ELSE IF looksLikeDialogue(nextText) THEN TRUE
           ELSE dialogueFrom(allLines, i + 1, last)

hasDialogueFollowing(allLines, currentIndex) ==
  LET last == IF currentIndex + 4 < Len(allLines) THEN currentIndex + 4
              ELSE Len(allLines)
  IN  dialogueFrom(allLines, currentIndex + 1, last)

commonWords ==
  {<<"T","H","E">>, <<"A","N","D">>, <<"O","R">>, <<"B","U","T">>, <<"S","O">>, <<"I","F">>, <<"W","H","E","N">>, <<"W","H","E","R","E">>, <<"W","H","Y">>,
   <<"H","O","W">>, <<"C","U","T">>, <<"F","A","D","E">>, <<"D","I","S","S","O","L","V","E">>, <<"S","M","A","S","H">>, <<"M","A","T","C","H">>, <<"J","U","M","P">>, <<"W","I","P","E">>,
   <<"I","R","I","S">>, <<"C","O","N","T","I","N","U","E","D">>, <<"M","O","R","E">>, <<"C","O","N","T","I","N","U","O","U","S">>, <<"S","A","M","E">>, <<"T","I","M","E">>,
   <<"M","O","M","E","N","T","S">>, <<"L","A","T","E","R">>, <<"S","T","O","P">>, <<"S","T","A","R","T">>, <<"B","E","G","I","N">>, <<"E","N","D">>, <<"F","I","N","I","S","H">>,
   <<"C","O","M","P","L","E","T","E">>, <<"D","O","N","E">>}

actionWords ==
  {<<"W","A","L","K","S">>, <<"R","U","N","S">>, <<"S","I","T","S">>, <<"S","T","A","N","D","S">>, <<"L","O","O","K","S">>, <<"T","U","R","N","S">>, <<"O","P","E","N","S">>,
   <<"C","L","O","S","E","S">>}

isCharacterName(line, allLines, currentIndex) ==
  LET trimmed == trim(line)
      withoutParens == trim(removeParens(trimmed))
      nextText == trim(allLines[currentIndex + 1])
  IN  /\ Len(trimmed) > 0
      /\ ~(Len(trimmed) < 2 \/ Len(trimmed) > 50)
      /\ ~(isPageNumber(trimmed) \/ isPageFooter(trimmed))
      /\ ~(isSceneHeading(trimmed) \/ isTransition(trimmed))
      /\ ~(Len(withoutParens) = 0 \/ Len(withoutParens) < 2)
      /\ \E i \in 1..Len(withoutParens) : withoutParens[i] \in UpperSet
      /\ TestFull(characterPattern, withoutParens)
      /\ ~(includes(withoutParens, <<".">>)
             /\ ~TestPrefix(initialsPattern, withoutParens))
      /\ currentIndex + 1 <= Len(allLines)
      /\ Len(nextText) > 0
      /\ ~(looksLikeCharacterName(nextText) \/ isSceneHeading(nextText))
      /\ toUpperCase(withoutParens) \notin commonWords
      /\ ~((\E w \in actionWords : includes(toUpperCase(withoutParens), w))
             /\ Len(withoutParens) > 20)
      /\ hasDialogueFollowing(allLines, currentIndex)

isLikelyActionLine(line) ==
  LET trimmed == trim(line)
      isAllCaps == TestFull(<<Cls(UpperSet \cup SpaceSet \cup {"'", ".", "-"}, 1, -1)>>,
                            trimmed)
      startsWithCap == Len(trimmed) > 0 /\ trimmed[1] \in UpperSet
      hasLowercase == \E i \in 1..Len(trimmed) : trimmed[i] \in LowerSet
  IN  IF looksLikeCharacterName(trimmed) THEN FALSE
      ELSE IF isAllCaps /\ Len(trimmed) > 60 THEN TRUE
      ELSE IF startsWithCap /\ hasLowercase /\ Len(trimmed) > 40 THEN TRUE
      ELSE FALSE

(***************************************************************************)
(* AdvancedScriptParser: text normalisation and page segmentation          *)
(***************************************************************************)
\* only the one white-space character before a line feed is removed
RECURSIVE dropOneBeforeNewline(_)
dropOneBeforeNewline(s) ==
  IF Len(s) = 0 THEN <<>>
  ELSE IF Len(s) > 1 /\ s[1] \in SpaceSet /\ s[2] = "\n"
    THEN <<"\n">> \o dropOneBeforeNewline(SubSeq(s, 3, Len(s)))
  ELSE <<s[1]>> \o dropOneBeforeNewline(Tail(s))

\* replace(/\s+\n/g, '\n'): a run of white space up to its last line feed
RECURSIVE collapseBeforeNewline(_)
collapseBeforeNewline(s) ==
  IF \A q \in 2..Len(s) : ~(s[q] = "\n" /\ s[q - 1] \in SpaceSet) THEN s
  ELSE LET ends == {q \in 2..Len(s) :
                      s[q] = "\n" /\ \A i \in 1..q : s[i] \in SpaceSet}
       IN  IF s[1] \in SpaceSet /\ ends # {}
             THEN LET q == CHOOSE q \in ends : \A r \in ends : r <= q
                  IN  <<"\n">> \o collapseBeforeNewline(SubSeq(s, q + 1, Len(s)))
             ELSE <<s[1]>> \o collapseBeforeNewline(Tail(s))

\* the replacements of mis-decoded UTF-8 sequences, in source order
Mojibake ==
  << <<<<"[a-circ]", "[euro]", "[tm]">>, <<"'">>>>,
     <<<<"[a-circ]", "[euro]", "[oe]">>, <<"\"">>>>,
     <<<<"[a-circ]", "[euro]">>, <<"\"">>>>,
     <<<<"[a-circ]", "[euro]", "\"">>, <<"[em-dash]">>>>,
     <<<<"[a-circ]", "[euro]", "\"">>, <<"[en-dash]">>>>,
     <<<<"[A-tilde]", " ">>, <<"[a-grave]">>>>,
     <<<<"[A-tilde]", "[uml]">>, <<"[e-grave]">>>>,
     <<<<"[A-tilde]", "[copy]">>, <<"[e-acute]">>>>,
     <<<<"[A-tilde]", "[not]">>, <<"[i-grave]">>>>,
     <<<<"[A-tilde]", "[sup2]">>, <<"[o-grave]">>>>,
     <<<<"[A-tilde]", "[sup1]">>, <<"[u-grave]">>>>,
     <<<<"p", "i", "[A-tilde]", "[sup1]">>, <<"p", "i", "[u-grave]">>>> >>

RECURSIVE fixEncoding(_, _)
fixEncoding(s, k) ==
  IF k > Len(Mojibake) THEN s
  ELSE fixEncoding(replaceAll(s, Mojibake[k][1], Mojibake[k][2]), k + 1)

cleanScriptText(t) ==
  trim(fixEncoding(
         collapseBeforeNewline(
           replaceAll(replaceAll(replaceAll(t, <<"\r", "\n">>, <<"\n">>),
                                 <<"\r">>, <<"\n">>),
                      <<"\t">>, <<" ", " ", " ", " ">>)),
         1))

notBlank(p) == Len(trim(p)) > 0

\* formFeedPages.length >= totalPages && formFeedPages.length <= totalPages * 1.5
formFeedAccepted(n, total) == n >= total /\ 2 * n <= 3 * total

formFeedSplit(t) == SelectSeq(split(t, "\f"), notBlank)

formFeedTextPages(t) ==
  LET formFeedPages == formFeedSplit(t)
  IN  [index \in 1..Len(formFeedPages) |->
         LET cleaned == cleanScriptText(formFeedPages[index])
         IN  [pageNumber |-> index,
              rawText |-> cleaned,
              lineCount |-> Len(split(cleaned, "\n"))]]

\* the page-number markers of the text: <<line index (from 1), page number>>
RECURSIVE findPageBreaks(_, _, _)
findPageBreaks(lines, i, total) ==
  IF i > Len(lines) THEN <<>>
  ELSE LET line == trim(lines[i])
           isMarker == /\ TestFull(<<Cls(DigitSet, 1, 3), Cls(SpaceSet, 0, -1)>>, line)
                       /\ parseInt(line) >= 1
                       /\ parseInt(line) <= total
       IN  (IF isMarker THEN <<[lineIndex |-> i, pageNumber |-> parseInt(line)]>>
            ELSE <<>>) \o findPageBreaks(lines, i + 1, total)

detectPagesByPageNumbers(t, total) ==
  LET lines == split(t, "\n")
      pageBreaks == findPageBreaks(lines, 1, total)
  IN  IF 2 * Len(pageBreaks) < total THEN <<>>
      ELSE [i \in 1..Len(pageBreaks) |->
              LET startLine == pageBreaks[i].lineIndex + 1
                  endLine == IF i < Len(pageBreaks)
                               THEN pageBreaks[i + 1].lineIndex - 1
                               ELSE Len(lines)
                  pageLines == SubSeq(lines, startLine, endLine)
              IN  [pageNumber |-> pageBreaks[i].pageNumber,
                   rawText |-> cleanScriptText(join(pageLines, <<"\n">>)),
                   lineCount |-> Len(pageLines)]]

RECURSIVE dropLeadingBlank(_)
dropLeadingBlank(lines) ==
  IF Len(lines) > 0 /\ ~notBlank(lines[1]) THEN dropLeadingBlank(Tail(lines))
  ELSE lines

RECURSIVE dropTrailingBlank(_)
dropTrailingBlank(lines) ==
  IF Len(lines) > 0 /\ ~notBlank(lines[Len(lines)])
    THEN dropTrailingBlank(SubSeq(lines, 1, Len(lines) - 1))
    ELSE lines

\* the loop of distributeLinesByContent from page i (from 0) and line currentLine
RECURSIVE distributeFrom(_, _, _, _, _)
distributeFrom(allLines, total, base, i, currentLine) ==
  IF i >= total THEN <<>>
  ELSE LET isLastPage == (i = total - 1)
           rest == Len(allLines) - currentLine
           linesForThisPage == IF isLastPage THEN rest
                               ELSE IF base < rest THEN base ELSE rest
           endLine == currentLine + linesForThisPage
           pageLines == SubSeq(allLines, currentLine + 1, endLine)
       IN  <<[pageNumber |-> i + 1,
              rawText |-> cleanScriptText(join(pageLines, <<"\n">>)),
              lineCount |-> Len(pageLines)]>>
           \o distributeFrom(allLines, total, base, i + 1, endLine)

\* a loop that stops one page early (i < totalPages - 1)
distributeAllButLastPage(t, total) ==
  LET allLines == dropTrailingBlank(dropLeadingBlank(split(t, "\n")))
  IN  IF total <= 0 THEN <<>>
      ELSE distributeFrom(allLines, total - 1,
                          (Len(allLines) + total - 1) \div total, 0, 0)

distributeLinesByContent(t, total) ==
  LET allLines == dropTrailingBlank(dropLeadingBlank(split(t, "\n")))
  IN  IF total <= 0 THEN <<>>
      ELSE distributeFrom(allLines, total,
                          (Len(allLines) + total - 1) \div total, 0, 0)

\* extractTextPages with the method (1, 2 or 3) whose result it returns
extractTextPages(t, total) ==
  IF formFeedAccepted(Len(formFeedSplit(t)), total)
    THEN [tier |-> 1, pages |-> formFeedTextPages(t)]
  ELSE LET pageNumberPages == detectPagesByPageNumbers(t, total)
       IN  IF Len(pageNumberPages) > 0
             THEN [tier |-> 2, pages |-> pageNumberPages]
             ELSE [tier |-> 3, pages |-> distributeLinesByContent(t, total)]

(***************************************************************************)
(* AdvancedScriptParser: scene headings                                    *)
(***************************************************************************)
\* (INT\.?|EXT\.?|INT\/EXT\.?|I\/E\.?)
prefixPattern == <<Alt(HeadingPrefixes), Cls({"."}, 0, 1)>>

\* the positions e at which the prefix ends before \s
prefixEnds(h) ==
  {e \in Run(prefixPattern, 1, h, {1}) : e <= Len(h) /\ h[e] \in SpaceSet}

\* the starts of group 2: \s+ has consumed h[e..a-1]
groupStarts(h, e) == {a \in (e + 1)..Len(h) : \A i \in e..(a - 1) : h[i] \in SpaceSet}

TimeTail(sep, times) == <<Cls(sep, 1, 1), Cls(SpaceSet, 0, -1), Alt(times)>>

\* the ends b of a lazy group 2 h[a..b-1] after which \s* sep \s* (TIME) matches
lazyEnds(h, a, tail) ==
  LET u == toUpperCase(h)
  IN  {b \in (a + 1)..Len(h) :
         /\ \A i \in a..(b - 1) : h[i] \in AnyChar
         /\ RunFrom(tail, 1, h, u, {b}) # {}}

\* the time-of-day token matched by the tail from b
timeAt(h, b, tail, times) ==
  LET stop == CHOOSE q \in Run(tail, 1, h, {b}) : TRUE
      u == toUpperCase(h)
  IN  CHOOSE w \in times : stop - Len(w) >= 1 /\ OccursAt(u, w, stop - Len(w))

\* match of ^(prefix)\s+(.+?)<tail>: \s+ is greedy and group 2 lazy
headingMatch(h, tail, times) ==
  LET ends == prefixEnds(h)
      starts == UNION {groupStarts(h, e) : e \in ends}
      cands == UNION {{<<a, b>> : b \in lazyEnds(h, a, tail)} : a \in starts}
  IN  IF cands = {} THEN <<>>
      ELSE LET a == CHOOSE a \in {p[1] : p \in cands} :
                      \A p \in cands : p[1] <= a
               b == CHOOSE b \in {p[2] : p \in {pp \in cands : pp[1] = a}} :
                      \A p \in cands : p[1] = a => b <= p[2]
               e == CHOOSE e \in ends : a \in groupStarts(h, e)
           IN  <<[prefix |-> SubSeq(h, 1, e - 1),
                  location |-> SubSeq(h, a, b - 1),
                  time |-> timeAt(h, b, tail, times)]>>

stripPeriods(s) == replaceAll(s, <<".">>, <<>>)

\* match of ^(prefix)\s+(.+): both greedy
restMatch(h) ==
  LET ends == prefixEnds(h)
      cands == {a \in UNION {groupStarts(h, e) : e \in ends} : h[a] \in AnyChar}
  IN  IF cands = {} THEN <<>>
      ELSE LET a == CHOOSE a \in cands : \A c \in cands : c <= a
               b == CHOOSE b \in a..Len(h) :
                      /\ \A i \in a..b : h[i] \in AnyChar
                      /\ (b = Len(h) \/ h[b + 1] \notin AnyChar)
               e == CHOOSE e \in ends : a \in groupStarts(h, e)
           IN  <<[prefix |-> SubSeq(h, 1, e - 1), location |-> SubSeq(h, a, b)]>>

\* \s*[-en-dash em-dash]\s*(DAY|NIGHT|...)
dashTail == <<Cls(SpaceSet, 0, -1)>> \o TimeTail(DashSet, TimesOfDay)

\* \.\s*(DAY|NIGHT|...)
periodTail == TimeTail({"."}, TimesOfDay)

parseSceneHeading(heading) ==
  LET match1 == headingMatch(heading, dashTail, TimesOfDay)
      match2 == headingMatch(heading, periodTail, TimesOfDay)
      match3 == restMatch(heading)
      found(m) == [intExt |-> toUpperCase(stripPeriods(m.prefix)),
                   location |-> trim(m.location),
                   time |-> m.time]
  IN  IF Len(match1) > 0 THEN found(match1[1])
      ELSE IF Len(match2) > 0 THEN found(match2[1])
      ELSE IF Len(match3) > 0
        THEN LET loc == trim(match3[1].location)
             IN  [intExt |-> toUpperCase(stripPeriods(match3[1].prefix)),
                  location |-> IF Len(loc) > 0 /\ loc[Len(loc)] = "."
                                 THEN SubSeq(loc, 1, Len(loc) - 1) ELSE loc,
                  time |-> <<"D","A","Y">>]
      ELSE [intExt |-> <<"I","N","T">>, location |-> <<"U","n","k","n","o","w","n">>, time |-> <<"D","A","Y">>]

(***************************************************************************)
(* AdvancedScriptParser: line classification                               *)
(* (the display attributes of a formatted line are left out)               *)
(***************************************************************************)
ChainTypes == {"character", "parenthetical", "dialogue"}

\* the page-number and footer test placed after the dialogue continuation
lineTypeMarkersLast(lines, i, formatted) ==
  LET trimmed == trim(lines[i])
  IN  IF Len(trimmed) = 0 THEN "empty"
      ELSE IF isSceneHeading(trimmed) THEN "scene_heading"
      ELSE IF isTransition(trimmed) THEN "transition"
      ELSE IF isCharacterName(trimmed, lines, i) THEN "character"
      ELSE IF isParenthetical(trimmed) THEN "parenthetical"
      ELSE IF Len(formatted) > 0 /\ formatted[Len(formatted)].type \in ChainTypes
        THEN "dialogue"
      ELSE IF isPageNumber(trimmed) \/ isPageFooter(trimmed) THEN "skip"
      ELSE "action"

\* the type formatPageLines gives line i of the page, "skip" for a dropped line
lineType(lines, i, formatted) ==
  LET trimmed == trim(lines[i])
  IN  IF Len(trimmed) = 0 THEN "empty"
      ELSE IF isPageNumber(trimmed) \/ isPageFooter(trimmed) THEN "skip"
      ELSE IF isSceneHeading(trimmed) THEN "scene_heading"
      ELSE IF isTransition(trimmed) THEN "transition"
      ELSE IF isCharacterName(trimmed, lines, i) THEN "character"
      ELSE IF isParenthetical(trimmed) THEN "parenthetical"
      ELSE IF Len(formatted) > 0 /\ formatted[Len(formatted)].type \in ChainTypes
        THEN "dialogue"
      ELSE "action"

RECURSIVE formatFrom(_, _, _)
formatFrom(lines, i, formatted) ==
  IF i > Len(lines) THEN formatted
  ELSE LET trimmed == trim(lines[i])
           type == lineType(lines, i, formatted)
       IN  formatFrom(lines, i + 1,
             IF type = "skip" THEN formatted
             ELSE Append(formatted,
                    [type |-> type,
                     text |-> IF type = "empty" THEN <<>>
                              ELSE IF type = "character"
                                THEN cleanCharacterName(trimmed)
                              ELSE trimmed]))

formatPageLines(pageText) == formatFrom(split(pageText, "\n"), 1, <<>>)

analyzePages(pages) ==
  [k \in 1..Len(pages) |->
     [pageNumber |-> pages[k].pageNumber,
      rawText |-> pages[k].rawText,
      lineCount |-> pages[k].lineCount,
      formattedLines |-> formatPageLines(pages[k].rawText)]]

(***************************************************************************)
(* AdvancedScriptParser.parseScenes                                        *)
(***************************************************************************)
RECURSIVE flatten(_, _)
flatten(pages, k) ==
  IF k > Len(pages) THEN <<>>
  ELSE [n \in 1..Len(pages[k].formattedLines) |->
          [type |-> pages[k].formattedLines[n].type,
           text |-> pages[k].formattedLines[n].text,
           pageNumber |-> pages[k].pageNumber]]
       \o flatten(pages, k + 1)

\* a dialogue-collection loop that begins at the cue line itself (let j = i)
\* and stops on it at once
collectFromCueLine(all, j, dialogueLines, sceneLines) ==
  [j |-> j - 1, dialogueLines |-> dialogueLines, sceneLines |-> sceneLines]

\* the dialogue-collection loop; j is the JavaScript index + 1
RECURSIVE collectDialogue(_, _, _, _)
collectDialogue(all, j, dialogueLines, sceneLines) ==
  IF j > Len(all)
    THEN [j |-> j, dialogueLines |-> dialogueLines, sceneLines |-> sceneLines]
  ELSE LET nextLine == trim(all[j].text)
           nextType == all[j].type
           stop == [j |-> j, dialogueLines |-> dialogueLines,
                    sceneLines |-> sceneLines]
       IN  IF Len(nextLine) = 0
             THEN collectDialogue(all, j + 1, dialogueLines, sceneLines)
           ELSE IF nextType \in {"character", "scene_heading", "transition"}
             THEN stop
           ELSE IF nextType = "parenthetical"
             THEN collectDialogue(all, j + 1, dialogueLines,
                                  Append(sceneLines, nextLine))
           ELSE IF nextType = "dialogue"
             THEN collectDialogue(all, j + 1, Append(dialogueLines, nextLine),
                                  Append(sceneLines, nextLine))
           ELSE IF nextType = "action" /\ isLikelyActionLine(nextLine)
             THEN stop
           ELSE collectDialogue(all, j + 1, dialogueLines, sceneLines)

\* the scene pushed when the next heading or the end of the stream is reached
sealScene(currentScene, sceneLines) ==
  [currentScene EXCEPT !.text = join(sceneLines, <<"\n">>)]

addActor(actors, name) ==
  IF \E k \in 1..Len(actors) : actors[k] = name THEN actors
  ELSE Append(actors, name)

\* a numbering that starts from 0
nextSceneNumberFromZero(pushed) == Len(pushed)

\* sceneNumber: scenes.length + 1
nextSceneNumber(pushed) == Len(pushed) + 1

\* one iteration of the main loop; st.i is the JavaScript index + 1 and
\* st.current holds the open scene, if any
parseStep(all, st) ==
  LET lineObj == all[st.i]
      line == lineObj.text
      lineType_ == lineObj.type
  IN  IF lineType_ = "scene_heading"
        THEN LET pushed == IF Len(st.current) > 0
                             THEN Append(st.scenes,
                                         sealScene(st.current[1], st.sceneLines))
                             ELSE st.scenes
                 sceneData == parseSceneHeading(line)
             IN  [i |-> st.i + 1,
                  scenes |-> pushed,
                  current |-> <<[sceneNumber |-> nextSceneNumber(pushed),
                                 pageNumber |-> lineObj.pageNumber,
                                 heading |-> line,
                                 location |-> sceneData.location,
                                 intExt |-> sceneData.intExt,
                                 timeOfDay |-> sceneData.time,
                                 dialogue |-> <<>>,
                                 actions |-> <<>>,
                                 actors |-> <<>>,
                                 text |-> <<>>]>>,
                  sceneLines |-> <<line>>]
      ELSE IF Len(st.current) = 0 THEN [st EXCEPT !.i = st.i + 1]
      ELSE IF lineType_ = "character"
        THEN LET characterName == cleanCharacterName(line)
                 got == collectDialogue(all, st.i + 1, <<>>,
                                        Append(st.sceneLines, line))
                 scene == st.current[1]
             IN  [i |-> got.j,
                  scenes |-> st.scenes,
                  current |-> <<[scene EXCEPT
                     !.actors = addActor(scene.actors, characterName),
                     !.dialogue =
                        IF Len(got.dialogueLines) > 0
                          THEN Append(scene.dialogue,
                                 [character |-> characterName,
                                  text |-> join(got.dialogueLines, <<" ">>)])
                          ELSE scene.dialogue]>>,
                  sceneLines |-> got.sceneLines]
      ELSE IF lineType_ = "action"
        THEN [st EXCEPT !.i = st.i + 1,
                        !.sceneLines = Append(st.sceneLines, line),
                        !.current[1].actions = Append(st.current[1].actions, line)]
      ELSE [st EXCEPT !.i = st.i + 1,
                      !.sceneLines = Append(st.sceneLines, line)]

RECURSIVE parseLoop(_, _)
parseLoop(all, st) ==
  IF st.i > Len(all) THEN st ELSE parseLoop(all, parseStep(all, st))

\* a last scene stored over the scene pushed before it
lastSceneOverwrites(st) ==
  IF Len(st.current) = 0 THEN st.scenes
  ELSE IF Len(st.scenes) = 0
    THEN <<sealScene(st.current[1], st.sceneLines)>>
  ELSE [st.scenes EXCEPT ![Len(st.scenes)] = sealScene(st.current[1], st.sceneLines)]

\* "Save last scene": the scenes once the loop has ended in st
lastSceneSaved(st) ==
  IF Len(st.current) > 0
    THEN Append(st.scenes, sealScene(st.current[1], st.sceneLines))
    ELSE st.scenes

\* a loop entered with an untitled scene already open
parseFromOpenScene(all) ==
  lastSceneSaved(parseLoop(all,
    [i |-> 1, scenes |-> <<>>,
     current |-> <<[sceneNumber |-> 1, pageNumber |-> 1, heading |-> <<>>,
                    location |-> <<>>, intExt |-> <<>>, timeOfDay |-> <<>>,
                    dialogue |-> <<>>, actions |-> <<>>, actors |-> <<>>,
                    text |-> <<>>]>>,
     sceneLines |-> <<>>]))

parseFrom(all) ==
  lastSceneSaved(parseLoop(all, [i |-> 1, scenes |-> <<>>, current |-> <<>>,
                                 sceneLines |-> <<>>]))

parseScenes(pages) == parseFrom(flatten(pages, 1))

(***************************************************************************)
(* AdvancedScriptParser: character roster and metadata                     *)
(***************************************************************************)
hasKey(m, name) == \E k \in 1..Len(m) : m[k].name = name

keyOf(m, name) == CHOOSE k \in 1..Len(m) : m[k].name = name

\* the scene is recorded only while the character has none yet
noteFirstSceneOnly(sceneList, sceneIndex) ==
  IF Len(sceneList) > 0 THEN sceneList ELSE Append(sceneList, sceneIndex)

\* if (!char.scenes.includes(sceneIndex)) char.scenes.push(sceneIndex)
noteScene(sceneList, sceneIndex) ==
  IF \E n \in 1..Len(sceneList) : sceneList[n] = sceneIndex
    THEN sceneList
    ELSE Append(sceneList, sceneIndex)

\* scene.actors.forEach of extractCharacters; sceneIndex counts from 0
RECURSIVE foldActors(_, _, _, _)
foldActors(m, actors, k, sceneIndex) ==
  IF k > Len(actors) THEN m
  ELSE LET charName == actors[k]
           m1 == IF hasKey(m, charName) THEN m
                 ELSE Append(m, [name |-> charName, lines |-> 0,
                                 scenes |-> <<>>, dialogue |-> <<>>])
           c == keyOf(m1, charName)
           m2 == [m1 EXCEPT ![c].scenes = noteScene(@, sceneIndex)]
       IN  foldActors(m2, actors, k + 1, sceneIndex)

\* the count is set to 1 instead of incremented
creditLineOnce(char, d) ==
  [char EXCEPT !.lines = 1, !.dialogue = Append(@, d.text)]

\* char.lines += 1; char.dialogue.push(d.text)
creditLine(char, d) ==
  [char EXCEPT !.lines = @ + 1, !.dialogue = Append(@, d.text)]

\* scene.dialogue.forEach of extractCharacters
RECURSIVE foldDialogue(_, _, _)
foldDialogue(m, dialogue, k) ==
  IF k > Len(dialogue) THEN m
  ELSE LET d == dialogue[k]
       IN  foldDialogue(
             IF hasKey(m, d.character)
               THEN [m EXCEPT ![keyOf(m, d.character)] = creditLine(@, d)]
               ELSE m,
             dialogue, k + 1)

RECURSIVE foldScenes(_, _, _)
foldScenes(m, ss, k) ==
  IF k > Len(ss) THEN m
  ELSE foldScenes(foldDialogue(foldActors(m, ss[k].actors, 1, k - 1),
                               ss[k].dialogue, 1),
                  ss, k + 1)

extractCharacters(ss) ==
  LET characterMap == foldScenes(<<>>, ss, 1)
  IN  [k \in 1..Len(characterMap) |->
         [name |-> characterMap[k].name,
          lines |-> characterMap[k].lines,
          scenes |-> Len(characterMap[k].scenes),
          sceneIds |-> [n \in 1..Len(characterMap[k].scenes) |->
                          String(characterMap[k].scenes[n])],
          dialogue |-> characterMap[k].dialogue]]

\* [...new Set(values.filter(Boolean))]
RECURSIVE unique(_, _)
unique(values, seen) ==
  IF Len(values) = 0 THEN seen
  ELSE unique(Tail(values),
              IF Len(values[1]) = 0 \/ \E k \in 1..Len(seen) : seen[k] = values[1]
                THEN seen ELSE Append(seen, values[1]))

\* the callbacks given to scenes.reduce
dialogueReducer(sum, s) == sum + Len(s.dialogue)

actionsReducer(sum, s) == Len(s.actions)

RECURSIVE reduceDialogue(_, _, _)
reduceDialogue(ss, k, sum) ==
  IF k > Len(ss) THEN sum ELSE reduceDialogue(ss, k + 1, dialogueReducer(sum, ss[k]))

RECURSIVE reduceActions(_, _, _)
reduceActions(ss, k, sum) ==
  IF k > Len(ss) THEN sum ELSE reduceActions(ss, k + 1, actionsReducer(sum, ss[k]))

generateMetadata(pages, ss, cs) ==
  LET uniqueLocations == unique([k \in 1..Len(ss) |-> ss[k].location], <<>>)
      uniqueTimes == unique([k \in 1..Len(ss) |-> ss[k].timeOfDay], <<>>)
  IN  [totalPages |-> Len(pages),
       scenes |-> Len(ss),
       characters |-> Len(cs),
       locations |-> Len(uniqueLocations),
       locationList |-> uniqueLocations,
       timePeriods |-> Len(uniqueTimes),
       timeList |-> uniqueTimes,
       totalDialogue |-> reduceDialogue(ss, 1, 0),
       totalActions |-> reduceActions(ss, 1, 0)]

(***************************************************************************)
(* DocumentBasedScriptParser (parsers/document.parser.js)                  *)
(***************************************************************************)
docTimesOfDay ==
  {<<"D","A","Y">>, <<"N","I","G","H","T">>, <<"L","A","T","E","R">>, <<"M","O","R","N","I","N","G">>, <<"E","V","E","N","I","N","G">>, <<"D","A","W","N">>, <<"D","U","S","K">>,
   <<"C","O","N","T","I","N","U","O","U","S">>, <<"S","A","M","E"," ","T","I","M","E">>, <<"M","O","M","E","N","T","S"," ","L","A","T","E","R">>}

docScenePatterns == headingPatterns(docTimesOfDay)

docIsSceneHeading(line) ==
  LET u == toUpperCase(line)
      P == RunFrom(HeadingStart, 1, line, u, {1})
  IN  /\ P # {}
      /\ \E n \in 1..3 : RunFrom(docScenePatterns[n], 1, line, u, {1}) # {}

\* replace('.', ''): the first period only
removeFirstPeriod(s) ==
  IF \A i \in 1..Len(s) : s[i] # "." THEN s
  ELSE LET k == CHOOSE i \in 1..Len(s) : s[i] = "." /\ \A j \in 1..(i-1) : s[j] # "."
       IN  SubSeq(s, 1, k - 1) \o SubSeq(s, k + 1, Len(s))

docParseSceneHeading(heading) ==
  LET match1 == headingMatch(heading, <<Cls(SpaceSet, 0, -1)>> \o TimeTail(DashSet, docTimesOfDay),
                             docTimesOfDay)
  IN  IF Len(match1) > 0
        THEN [intExt |-> toUpperCase(removeFirstPeriod(match1[1].prefix)),
              location |-> trim(match1[1].location),
              time |-> match1[1].time]
        ELSE [intExt |-> <<"I","N","T">>, location |-> <<"U","n","k","n","o","w","n">>, time |-> <<"D","A","Y">>]

docIsTransition(line) ==
  LET u == toUpperCase(line)
      transitions ==
        {<<"F","A","D","E"," ","O","U","T">>, <<"F","A","D","E"," ","I","N">>, <<"C","U","T"," ","T","O">>, <<"D","I","S","S","O","L","V","E"," ","T","O">>, <<"T","H","E"," ","E","N","D">>, <<"C","O","N","T","I","N","U","E","D">>}
  IN  \E t \in transitions : includes(u, t)

docIsCharacterName(line, allLines, currentIndex) ==
  LET trimmed == trim(line)
      withoutParens == trim(removeParens(trimmed))
      nextLine == trim(allLines[currentIndex + 1])
  IN  /\ ~(Len(trimmed) < 2 \/ Len(trimmed) > 50)
      /\ ~(docIsSceneHeading(trimmed) \/ docIsTransition(trimmed))
      /\ ~(Len(withoutParens) = 0 \/ \A i \in 1..Len(withoutParens) :
                                        withoutParens[i] \notin UpperSet)
      /\ TestFull(characterPattern, withoutParens)
      /\ currentIndex + 1 <= Len(allLines)
      /\ ~(Len(nextLine) = 0 \/ docIsSceneHeading(nextLine))

docCleanCharacterName(line) == trim(collapseSpaces(removeParens(line)))

docCleanScriptText(t) ==
  fixEncoding(replaceAll(replaceAll(t, <<"\r", "\n">>, <<"\n">>),
                         <<"\r">>, <<"\n">>), 1)

\* the dialogue collection of analyzeScenes from line j of the page
RECURSIVE docCollect(_, _, _)
docCollect(lines, j, dialogueText) ==
  IF j > Len(lines) THEN dialogueText
  ELSE LET nextLine == trim(lines[j])
       IN  IF Len(nextLine) = 0 THEN docCollect(lines, j + 1, dialogueText)
           ELSE IF docIsCharacterName(nextLine, lines, j) \/ docIsSceneHeading(nextLine)
             THEN dialogueText
           ELSE docCollect(lines, j + 1, dialogueText \o nextLine \o <<" ">>)

\* the callback of lines.forEach in analyzeScenes
docLine(st, page, lines, lineIndex) ==
  LET line == lines[lineIndex]
      trimmed == trim(line)
  IN  IF Len(trimmed) = 0 \/ isPageNumber(trimmed) \/ isPageFooter(trimmed) THEN st
      ELSE IF docIsSceneHeading(trimmed)
        THEN LET sceneData == docParseSceneHeading(trimmed)
             IN  [scenes |-> IF Len(st.current) > 0
                               THEN Append(st.scenes,
                                           sealScene(st.current[1], st.sceneLines))
                               ELSE st.scenes,
                  current |-> <<[sceneNumber |-> st.sceneNumber,
                                 pageNumber |-> page.pageNumber,
                                 heading |-> trimmed,
                                 location |-> sceneData.location,
                                 intExt |-> sceneData.intExt,
                                 timeOfDay |-> sceneData.time,
                                 dialogue |-> <<>>,
                                 actions |-> <<>>,
                                 actors |-> <<>>,
                                 text |-> <<>>]>>,
                  sceneLines |-> <<trimmed>>,
                  sceneNumber |-> st.sceneNumber + 1]
      ELSE IF Len(st.current) = 0 THEN st
      ELSE LET isChar == docIsCharacterName(trimmed, lines, lineIndex)
               characterName == docCleanCharacterName(trimmed)
               dialogueText == docCollect(lines, lineIndex + 1, <<>>)
               scene == st.current[1]
               withCue ==
                 IF isChar
                   THEN [scene EXCEPT
                           !.actors = addActor(scene.actors, characterName),
                           !.dialogue =
                              IF Len(trim(dialogueText)) > 0
                                THEN Append(scene.dialogue,
                                            [character |-> characterName,
                                             text |-> trim(dialogueText)])
                                ELSE scene.dialogue]
                   ELSE scene
               withAction ==
                 IF ~isChar /\ ~docIsTransition(trimmed) /\ ~isParenthetical(trimmed)
                   THEN [withCue EXCEPT !.actions = Append(@, trimmed)]
                   ELSE withCue
           IN  [st EXCEPT !.current = <<withAction>>,
                          !.sceneLines = Append(st.sceneLines, line)]

RECURSIVE docLines(_, _, _, _)
docLines(st, page, lines, lineIndex) ==
  IF lineIndex > Len(lines) THEN st
  ELSE docLines(docLine(st, page, lines, lineIndex), page, lines, lineIndex + 1)

RECURSIVE docPages(_, _, _)
docPages(st, pages, k) ==
  IF k > Len(pages) THEN st
  ELSE docPages(docLines(st, pages[k], split(pages[k].rawText, "\n"), 1),
                pages, k + 1)

analyzeScenes(pages) ==
  lastSceneSaved(docPages([scenes |-> <<>>, current |-> <<>>, sceneLines |-> <<>>,
                           sceneNumber |-> 1], pages, 1))

\* pages.length > 1 && pages.length <= totalPages * 1.5
docFormFeedAccepted(n, total) == n > 1 /\ 2 * n <= 3 * total

\* the fallback loop of extractTextPages, page i counted from 0
RECURSIVE docEstimate(_, _, _, _)
docEstimate(allLines, total, linesPerPage, i) ==
  IF i >= total THEN <<>>
  ELSE LET start == i * linesPerPage
           end == IF start + linesPerPage < Len(allLines)
                    THEN start + linesPerPage ELSE Len(allLines)
           pageLines == SubSeq(allLines, start + 1, end)
       IN  <<[pageNumber |-> i + 1,
              rawText |-> docCleanScriptText(join(pageLines, <<"\n">>)),
              lineCount |-> Len(pageLines)]>>
           \o docEstimate(allLines, total, linesPerPage, i + 1)

docExtractTextPages(t, total) ==
  LET pages == split(t, "\f")
      kept == SelectSeq(pages, notBlank)
      allLines == split(t, "\n")
  IN  IF docFormFeedAccepted(Len(pages), total)
        THEN [tier |-> 1,
              pages |-> [index \in 1..Len(kept) |->
                           [pageNumber |-> index,
                            rawText |-> docCleanScriptText(kept[index]),
                            lineCount |-> Len(split(kept[index], "\n"))]]]
      ELSE [tier |-> 3,
            pages |-> IF total <= 0 THEN <<>>
                      ELSE docEstimate(allLines, total,
                                       (Len(allLines) + total - 1) \div total, 0)]

(***************************************************************************)
(* HybridScriptParser (parsers/page.parser.js): line analysis and          *)
(* extractPages.  isParenthetical, isPageNumber and isPageFooter are the   *)
(* same in the three parsers, and isSceneHeading has the three patterns of *)
(* document.parser.js.                                                     *)
(***************************************************************************)
hybridIsTransition(line) ==
  LET u == toUpperCase(line)
      transitions ==
        {<<"F","A","D","E"," ","O","U","T">>, <<"F","A","D","E"," ","I","N">>, <<"C","U","T"," ","T","O">>, <<"D","I","S","S","O","L","V","E"," ","T","O">>, <<"S","M","A","S","H"," ","C","U","T"," ","T","O">>,
        <<"M","A","T","C","H"," ","C","U","T"," ","T","O">>, <<"J","U","M","P"," ","C","U","T"," ","T","O">>, <<"W","I","P","E"," ","T","O">>, <<"I","R","I","S"," ","O","U","T">>, <<"I","R","I","S"," ","I","N">>,
        <<"T","H","E"," ","E","N","D">>, <<"C","O","N","T","I","N","U","E","D">>}
  IN  \E t \in transitions : includes(u, t)

hybridLooksLikeCharacterName(line) ==
  LET trimmed == trim(line)
      withoutParens == trim(removeParens(trimmed))
  IN  /\ ~(Len(trimmed) < 2 \/ Len(trimmed) > 50)
      /\ ~(Len(withoutParens) = 0 \/ \A i \in 1..Len(withoutParens) :
                                        withoutParens[i] \notin UpperSet)
      /\ TestFull(characterPattern, withoutParens)
      /\ ~(includes(withoutParens, <<".">>)
             /\ ~TestPrefix(initialsPattern, withoutParens))
      /\ ~(docIsSceneHeading(trimmed) \/ hybridIsTransition(trimmed))

\* allLines holds strings here; currentIndex is the JavaScript index + 1
hybridIsCharacterName(line, allLines, currentIndex) ==
  LET trimmed == trim(line)
      withoutParens == trim(removeParens(trimmed))
      nextText == trim(allLines[currentIndex + 1])
  IN  /\ Len(trimmed) > 0
      /\ ~(Len(trimmed) < 2 \/ Len(trimmed) > 50)
      /\ ~(isPageNumber(trimmed) \/ isPageFooter(trimmed))
      /\ ~(docIsSceneHeading(trimmed) \/ hybridIsTransition(trimmed))
      /\ ~(Len(withoutParens) = 0 \/ Len(withoutParens) < 2)
      /\ \E i \in 1..Len(withoutParens) : withoutParens[i] \in UpperSet
      /\ TestFull(characterPattern, withoutParens)
      /\ ~(includes(withoutParens, <<".">>)
             /\ ~TestPrefix(initialsPattern, withoutParens))
      /\ currentIndex + 1 <= Len(allLines)
      /\ Len(nextText) > 0
      /\ ~hybridLooksLikeCharacterName(nextText)
      /\ ~docIsSceneHeading(nextText)

detectLineType(line, allLines, currentIndex) ==
  IF docIsSceneHeading(line) THEN "scene_heading"
  ELSE IF hybridIsTransition(line) THEN "transition"
  ELSE IF isParenthetical(line) THEN "parenthetical"
  ELSE IF hybridIsCharacterName(line, allLines, currentIndex) THEN "character"
  ELSE "dialogue_or_action"

\* index counts from 0 as in the source
analyzePageLines(pageText) ==
  LET split_ == split(pageText, "\n")
      lines == SelectSeq([n \in 1..Len(split_) |-> trim(split_[n])],
                         LAMBDA l : Len(l) > 0 /\ ~isPageNumber(l) /\ ~isPageFooter(l))
  IN  [n \in 1..Len(lines) |->
         [index |-> n - 1,
          type |-> detectLineType(lines[n], lines, n),
          text |-> lines[n]]]

\* formFeedPages.length > 1 && formFeedPages.length <= totalPages * 1.5
hybridFormFeedAccepted(n, total) == n > 1 /\ 2 * n <= 3 * total

RECURSIVE hybridEstimate(_, _, _, _)
hybridEstimate(lines, total, linesPerPage, i) ==
  IF i >= total THEN <<>>
  ELSE LET start == i * linesPerPage
           end == IF start + linesPerPage < Len(lines)
                    THEN start + linesPerPage ELSE Len(lines)
       IN  <<[pageNumber |-> i + 1,
              rawText |-> trim(join(SubSeq(lines, start + 1, end), <<"\n">>)),
              formatted |-> analyzePageLines(
                              trim(join(SubSeq(lines, start + 1, end), <<"\n">>)))]>>
           \o hybridEstimate(lines, total, linesPerPage, i + 1)

extractPages(t, total) ==
  LET formFeedPages == formFeedSplit(t)
      lines == split(t, "\n")
  IN  IF hybridFormFeedAccepted(Len(formFeedPages), total)
        THEN [tier |-> 1,
              pages |-> [index \in 1..Len(formFeedPages) |->
                           [pageNumber |-> index,
                            rawText |-> trim(formFeedPages[index]),
                            formatted |-> analyzePageLines(trim(formFeedPages[index]))]]]
      ELSE [tier |-> 3,
            pages |-> IF total <= 0 THEN <<>>
                      ELSE hybridEstimate(lines, total,
                                          (Len(lines) + total - 1) \div total, 0)]

(***************************************************************************)
(* Bounds and input families                                               *)
(***************************************************************************)
MaxPieces == 3

MaxDeclared == 2

MaxSegPieces == 4

MaxSegDeclared == 3

\* fragments of screenplay text; a document is fragments joined by line feeds
Pieces ==
  {<<"I","N","T","."," ","C","A","R">>,
   <<"E","X","T","."," ","B","A","R"," ","-"," ","N","I","G","H","T","\n","J","O","H","N","\n","H","e","l","l","o",".">>,
   <<"M","A","R","Y"," ","(","O",".","S",".",")","\n","(","b","e","a","t",")","\n","H","i",".">>,
   <<"H","e","l","l","o",".">>, <<"1">>, <<"-"," ","1"," ","o","f"," ","2"," ","-">>,
   <<"C","U","T"," ","T","O",":">>}

\* fragments for the page segmenters: lines, page-number lines, form feeds
SegPieces == {<<"a">>, <<"\f","b">>, <<"1">>, <<"2">>, <<>>}

TextsOf(pieces, n) ==
  {join(ps, <<"\n">>) : ps \in UNION {[1..k -> pieces] : k \in 0..n}}

(***************************************************************************)
(* State: one run of AdvancedScriptParser.parse on (text, totalPages),     *)
(* followed by the upload and a re-analysis of the stored pages            *)
(***************************************************************************)
Null == <<>>

InitWith(texts, counts) ==
  /\ pc = "start"
  /\ text \in texts
  /\ totalPages \in counts
  /\ tier = 0
  /\ textPages = Null
  /\ analyzedPages = Null
  /\ scenes = Null
  /\ characters = Null
  /\ metadata = Null
  /\ docScenes = Null
  /\ segPages = Null

Init == InitWith(TextsOf(Pieces, MaxPieces), 0..MaxDeclared) /\ calls = Null

\* fs.readFile or parser.getText rejects: parse rethrows the error
ParseThrows ==
  /\ pc = "start"
  /\ pc' = "thrown"
  /\ UNCHANGED <<text, totalPages, tier, textPages, analyzedPages, scenes,
                 characters, metadata, docScenes, segPages, calls>>

ExtractTextPages ==
  /\ pc = "start"
  /\ LET r == extractTextPages(text, totalPages)
     IN  tier' = r.tier /\ textPages' = r.pages
  /\ pc' = "pages"
  /\ UNCHANGED <<text, totalPages, analyzedPages, scenes, characters, metadata,
                 docScenes, segPages, calls>>

AnalyzePages ==
  /\ pc = "pages"
  /\ analyzedPages' = analyzePages(textPages)
  /\ pc' = "analyzed"
  /\ UNCHANGED <<text, totalPages, tier, textPages, scenes, characters, metadata,
                 docScenes, segPages, calls>>

ParseScenes ==
  /\ pc = "analyzed"
  /\ scenes' = parseScenes(analyzedPages)
  /\ pc' = "scenes"
  /\ UNCHANGED <<text, totalPages, tier, textPages, analyzedPages, characters,
                 metadata, docScenes, segPages, calls>>

ExtractCharacters ==
  /\ pc = "scenes"
  /\ characters' = extractCharacters(scenes)
  /\ pc' = "characters"
  /\ UNCHANGED <<text, totalPages, tier, textPages, analyzedPages, scenes,
                 metadata, docScenes, segPages, calls>>

GenerateMetadata ==
  /\ pc = "characters"
  /\ metadata' = generateMetadata(analyzedPages, scenes, characters)
  /\ pc' = "done"
  /\ UNCHANGED <<text, totalPages, tier, textPages, analyzedPages, scenes,
                 characters, docScenes, segPages, calls>>

\* uploadScript after parse: scriptPage.createMany fails on the unique index
\* (scriptId, pageNumber) when two pages carry the same number
UploadScript ==
  /\ pc = "done"
  /\ pc' = IF \A a, b \in 1..Len(analyzedPages) :
                 a # b => analyzedPages[a].pageNumber # analyzedPages[b].pageNumber
             THEN "uploaded" ELSE "thrown"
  /\ UNCHANGED <<text, totalPages, tier, textPages, analyzedPages, scenes,
                 characters, metadata, docScenes, segPages, calls>>

\* findMany ... orderBy: { pageNumber: 'asc' } over rows with distinct numbers
RECURSIVE sortByPageNumber(_)
sortByPageNumber(pages) ==
  IF Len(pages) = 0 THEN <<>>
  ELSE LET k == CHOOSE k \in 1..Len(pages) :
                  \A n \in 1..Len(pages) : pages[k].pageNumber <= pages[n].pageNumber
       IN  <<pages[k]>> \o
           sortByPageNumber(SubSeq(pages, 1, k - 1) \o SubSeq(pages, k + 1, Len(pages)))

\* reanalyzeScript: the stored pages through DocumentBasedScriptParser
ReanalyzeScript ==
  /\ pc = "uploaded"
  /\ IF Len(analyzedPages) = 0
       THEN pc' = "thrown" /\ UNCHANGED docScenes
       ELSE /\ docScenes' = analyzeScenes(sortByPageNumber(analyzedPages))
            /\ pc' = "reanalyzed"
  /\ UNCHANGED <<text, totalPages, tier, textPages, analyzedPages, scenes,
                 characters, metadata, segPages, calls>>

Next ==
  \/ ParseThrows
  \/ ExtractTextPages
  \/ AnalyzePages
  \/ ParseScenes
  \/ ExtractCharacters
  \/ GenerateMetadata
  \/ UploadScript
  \/ ReanalyzeScript

Spec == Init /\ [][Next]_vars

(***************************************************************************)
(* The three page segmenters on the same text                              *)
(***************************************************************************)
InitSeg == InitWith(TextsOf(SegPieces, MaxSegPieces), (0 - 1)..MaxSegDeclared) /\ calls = Null

\* HybridScriptParser.parse up to extractPages
HybridExtractPages ==
  /\ pc = "start"
  /\ segPages' = [parser |-> "hybrid",
                  count |-> Len(formFeedSplit(cleanScriptText(text))),
                  result |-> extractPages(cleanScriptText(text), totalPages)]
  /\ pc' = "segmented"
  /\ UNCHANGED <<text, totalPages, tier, textPages, analyzedPages, scenes,
                 characters, metadata, docScenes, calls>>

\* DocumentBasedScriptParser.parse up to extractTextPages
DocumentExtractTextPages ==
  /\ pc = "start"
  /\ segPages' = [parser |-> "document",
                  count |-> Len(split(text, "\f")),
                  result |-> docExtractTextPages(text, totalPages)]
  /\ pc' = "segmented"
  /\ UNCHANGED <<text, totalPages, tier, textPages, analyzedPages, scenes,
                 characters, metadata, docScenes, calls>>

NextSeg ==
  \/ ExtractTextPages
  \/ HybridExtractPages
  \/ DocumentExtractTextPages

SpecSeg == InitSeg /\ [][NextSeg]_vars

(***************************************************************************)
(* Properties                                                              *)
(***************************************************************************)
AfterAnalyzed == {"analyzed", "scenes", "characters", "done", "uploaded", "reanalyzed"}

AfterScenes == {"scenes", "characters", "done", "uploaded", "reanalyzed"}

AfterCharacters == {"characters", "done", "uploaded", "reanalyzed"}

\* the classified line stream parseScenes reads
stream == flatten(analyzedPages, 1)

isMarkerLine(line) == isPageNumber(line) \/ isPageFooter(line)

\* the lines of the scenes' text fields, in scene order
RECURSIVE sceneTextLines(_)
sceneTextLines(ss) ==
  IF Len(ss) = 0 THEN <<>>
  ELSE split(ss[1].text, "\n") \o sceneTextLines(Tail(ss))

headingIndexes(all) == {n \in 1..Len(all) : all[n].type = "scene_heading"}

\* the texts of the stream's lines from the first scene heading onward
fromFirstHeading(all) ==
  IF headingIndexes(all) = {} THEN <<>>
  ELSE LET first == CHOOSE n \in headingIndexes(all) :
                      \A m \in headingIndexes(all) : n <= m
       IN  [n \in 1..(Len(all) - first + 1) |-> all[first + n - 1].text]

hasText(line) == Len(line) > 0

\* C1: the text fields of the scenes returned by parseScenes, concatenated in
\* scene order, are exactly the lines of the classified stream from the first
\* scene heading onward, each once and in order: no line is lost or duplicated
\* (lines without text are left out of the comparison)
SceneTextComplete ==
  pc \in AfterScenes =>
    SelectSeq(sceneTextLines(scenes), hasText)
      = SelectSeq(fromFirstHeading(stream), hasText)

\* the scene-heading lines DocumentBasedScriptParser.analyzeScenes meets
RECURSIVE docHeadingCount(_, _)
docHeadingCount(pages, k) ==
  IF k > Len(pages) THEN 0
  ELSE LET lines == split(pages[k].rawText, "\n")
       IN  Cardinality({n \in 1..Len(lines) :
                          /\ Len(trim(lines[n])) > 0
                          /\ ~isMarkerLine(trim(lines[n]))
                          /\ docIsSceneHeading(trim(lines[n]))})
           + docHeadingCount(pages, k + 1)

\* C2: in the scenes returned by AdvancedScriptParser.parseScenes and by
\* DocumentBasedScriptParser.analyzeScenes the scene at index i (from 0) has
\* sceneNumber i + 1, and there is exactly one scene per scene-heading line
SceneNumbering ==
  /\ pc \in AfterScenes =>
       /\ \A i \in 1..Len(scenes) : scenes[i].sceneNumber = i
       /\ Len(scenes) = Cardinality(headingIndexes(stream))
  /\ pc = "reanalyzed" =>
       /\ \A i \in 1..Len(docScenes) : docScenes[i].sceneNumber = i
       /\ Len(docScenes) = docHeadingCount(analyzedPages, 1)

\* C2 witness: both parsers have returned at least two scenes
TwoScenesNumbered ==
  pc = "reanalyzed" /\ Len(scenes) >= 2 /\ Len(docScenes) >= 2

RECURSIVE sumLines(_)
sumLines(cs) == IF Len(cs) = 0 THEN 0 ELSE cs[1].lines + sumLines(Tail(cs))

RECURSIVE sumDialogue(_)
sumDialogue(ss) == IF Len(ss) = 0 THEN 0 ELSE Len(ss[1].dialogue) + sumDialogue(Tail(ss))

RECURSIVE sumActions(_)
sumActions(ss) == IF Len(ss) = 0 THEN 0 ELSE Len(ss[1].actions) + sumActions(Tail(ss))

\* C3: the number of dialogue entries over all scenes equals the sum of lines
\* over all characters returned by extractCharacters
DialogueConservation ==
  pc \in AfterCharacters => sumLines(characters) = sumDialogue(scenes)

\* C3 witness: two characters spoke and one of them has more than one entry
TwoSpeakers ==
  /\ pc = "done"
  /\ Len(characters) >= 2
  /\ \A k \in 1..Len(characters) : characters[k].lines >= 1
  /\ \E k \in 1..Len(characters) : characters[k].lines >= 2

\* the indices (from 0) of the scenes that list the name among their actors
scenesWith(name) ==
  {i \in 0..(Len(scenes) - 1) :
     \E a \in 1..Len(scenes[i + 1].actors) : scenes[i + 1].actors[a] = name}

\* C4: for every returned character, scenes is the number of distinct scene
\* indices whose actors contain the name, and sceneIds lists exactly those
\* indices, once each
CharacterSceneCount ==
  pc \in AfterCharacters =>
    \A k \in 1..Len(characters) :
      LET c == characters[k]
          idx == scenesWith(c.name)
      IN  /\ c.scenes = Cardinality(idx)
          /\ Len(c.sceneIds) = Cardinality(idx)
          /\ {c.sceneIds[n] : n \in 1..Len(c.sceneIds)} = {String(i) : i \in idx}

\* C4 witness: a character acts in two scenes, another in one only
CharacterInTwoScenes ==
  /\ pc = "characters"
  /\ \E k \in 1..Len(characters) : characters[k].scenes = 2
  /\ \E k \in 1..Len(characters) : characters[k].scenes = 1

\* the page counts a form-feed split of the text can be said to yield: with
\* and without blank pages, before and after cleanScriptText
formFeedCounts(t) ==
  {Len(split(t, "\f")), Len(formFeedSplit(t)),
   Len(split(cleanScriptText(t), "\f")), Len(formFeedSplit(cleanScriptText(t)))}

\* none of the counts lies in [total, 1.5 * total]
outsideDeclaredRange(t, total) ==
  \A n \in formFeedCounts(t) : ~(n >= total /\ 2 * n <= 3 * total)

\* C5: when the form-feed split yields a page count outside
\* [declaredPageCount, 1.5 * declaredPageCount], none of the three page
\* segmenters returns the form-feed split
FormFeedFallback ==
  /\ pc = "pages" => (outsideDeclaredRange(text, totalPages) => tier # 1)
  /\ pc = "segmented" =>
       (outsideDeclaredRange(text, totalPages) => segPages.result.tier # 1)

\* C6: a parse of an empty text, with a declared page count of zero or less,
\* or in which no scene heading is found does not end with a normal result
PreconditionFailureReported ==
  pc = "done" => Len(text) > 0 /\ totalPages > 0 /\ Len(scenes) > 0

\* C7: the metadata of a parse whose pages come from the uniform line
\* distribution (tier 3) carries needsReview: true
FallbackFlagged ==
  (pc = "done" /\ tier = 3) =>
    ("needsReview" \in DOMAIN metadata /\ metadata.needsReview = TRUE)

\* C8: metadata.totalActions is the sum of the scenes' action counts and
\* metadata.totalDialogue the sum of their dialogue counts
MetadataSums ==
  pc = "done" =>
    /\ metadata.totalActions = sumActions(scenes)
    /\ metadata.totalDialogue = sumDialogue(scenes)

\* C9: the pages extractTextPages returns carry page numbers that are at
\* least 1 and strictly increasing in array order, whichever tier made them
PageNumbersIncreasing ==
  pc = "pages" =>
    \A k \in 1..Len(textPages) :
      /\ textPages[k].pageNumber >= 1
      /\ k > 1 => textPages[k - 1].pageNumber < textPages[k].pageNumber

\* C10: no page-number line and no page-footer line is a classified line, a
\* line of a scene's text, an action or a dialogue text
MarkersDropped ==
  /\ pc \in AfterAnalyzed =>
       \A n \in 1..Len(stream) : ~isMarkerLine(stream[n].text)
  /\ pc \in AfterScenes =>
       \A k \in 1..Len(scenes) :
         /\ \A n \in 1..Len(split(scenes[k].text, "\n")) :
              ~isMarkerLine(split(scenes[k].text, "\n")[n])
         /\ \A n \in 1..Len(scenes[k].actions) : ~isMarkerLine(scenes[k].actions[n])
         /\ \A n \in 1..Len(scenes[k].dialogue) :
              ~isMarkerLine(scenes[k].dialogue[n].text)

\* C10 witness: the text has one page-number or footer line, between a line
\* of a dialogue block and the line that continues the block
MarkerInsideDialogue ==
  LET lines == split(text, "\n")
      markers == {i \in 1..Len(lines) : isMarkerLine(trim(lines[i]))}
  IN  /\ pc = "done"
      /\ Len(analyzedPages) = 1
      /\ \E i \in 2..(Len(lines) - 1) :
           /\ markers = {i}
           /\ Len(analyzedPages[1].formattedLines) = Len(lines) - 1
           /\ analyzedPages[1].formattedLines[i - 1].type \in {"character", "dialogue"}
           /\ analyzedPages[1].formattedLines[i].type = "dialogue"

(***************************************************************************)
(* cleanScriptText of both parsers, applied to a text and to its own       *)
(* output                                                                  *)
(***************************************************************************)
MaxCleanLen == 4

\* the characters the normalisation treats specially, and one it does not
CleanChars ==
  {"a", " ", "\t", "\n", "\r", "[a-circ]", "[euro]", "[tm]", "\"", "[A-tilde]"}

InitClean ==
  InitWith(UNION {[1..n -> CleanChars] : n \in 0..MaxCleanLen}, {1}) /\ calls = Null

\* segPages holds the successive outputs of the normalisation; the next pass
\* reads the text or the latest output
latestText == IF Len(segPages) = 0 THEN text ELSE segPages[Len(segPages)]

CleanScriptText ==
  /\ pc \in {"start", "advanced"}
  /\ Len(segPages) < 2
  /\ segPages' = Append(segPages, cleanScriptText(latestText))
  /\ pc' = "advanced"
  /\ UNCHANGED <<text, totalPages, tier, textPages, analyzedPages, scenes,
                 characters, metadata, docScenes, calls>>

DocCleanScriptText ==
  /\ pc \in {"start", "document"}
  /\ Len(segPages) < 2
  /\ segPages' = Append(segPages, docCleanScriptText(latestText))
  /\ pc' = "document"
  /\ UNCHANGED <<text, totalPages, tier, textPages, analyzedPages, scenes,
                 characters, metadata, docScenes, calls>>

NextClean ==
  \/ CleanScriptText
  \/ DocCleanScriptText

SpecClean == InitClean /\ [][NextClean]_vars

\* C11: cleanScriptText applied to its own output returns that output, in
\* the tab-converting, trimming variant of AdvancedScriptParser and in the
\* whitespace-preserving variant of DocumentBasedScriptParser
CleanIdempotent ==
  (pc \in {"advanced", "document"} /\ Len(segPages) = 2) =>
    segPages[2] = segPages[1]

\* C11 witness: a text with a tab, white space before a line feed and a
\* mis-decoded quote has been normalised twice by the Advanced variant, and
\* the first pass changed it
CleanedTwice ==
  /\ pc = "advanced"
  /\ Len(segPages) = 2
  /\ includes(text, <<"\t">>)
  /\ includes(text, <<" ", "\n">>)
  /\ segPages[1] # text
  /\ Len(segPages[1]) > 0

(***************************************************************************)
(* The parse pipeline on documents made of heading, cue and direction      *)
(* fragments                                                               *)
(***************************************************************************)
MaxCuePieces == 4

\* a heading, cues with and without a parenthetical extension, a bare cue,
\* a line wrapped in parentheses around a name, a heading that names a
\* transition and no time of day
CuePieces ==
  {<<"I","N","T","."," ","C","A","R">>, <<"M","A","R","Y","\n","H","i",".">>, <<"M","A","R","Y"," ","(","O",".","S",".",")","\n","H","i",".">>, <<"J","O","H","N">>,
   <<"(","A",")"," ","M","A","R","Y"," ","(","B",")","\n","H","i",".">>, <<"E","X","T","."," ","C","U","T"," ","T","O">>}

InitCues == InitWith(TextsOf(CuePieces, MaxCuePieces), {1}) /\ calls = Null

SpecCues == InitCues /\ [][Next]_vars

\* a cue without its parenthetical extension
canonicalCue(raw) ==
  LET t == trim(raw)
  IN  IF \A i \in 1..Len(t) : t[i] # "(" THEN t
      ELSE trim(SubSeq(t, 1, (CHOOSE i \in 1..Len(t) :
                                 t[i] = "(" /\ \A j \in 1..(i - 1) : t[j] # "(") - 1))

\* the lines of page p as written
rawLines(p) == split(analyzedPages[p].rawText, "\n")

\* <<page, line>> of the lines classified as character cues
cueLines ==
  {pl \in UNION {{<<p, i>> : i \in 1..Len(analyzedPages[p].formattedLines)} :
                   p \in 1..Len(analyzedPages)} :
     analyzedPages[pl[1]].formattedLines[pl[2]].type = "character"}

\* the dialogue entries spoken under a name: <<scene, entry>>
spokenBy(name) ==
  {kn \in UNION {{<<k, n>> : n \in 1..Len(scenes[k].dialogue)} : k \in 1..Len(scenes)} :
     scenes[kn[1]].dialogue[kn[2]].character = name}

\* C12: the roster has pairwise distinct names; a cue is entered under its
\* name without the trailing parenthetical extension, so that two cue forms
\* of one name are one Character, whose lines counts the dialogue entries
\* spoken under either form
RosterFolded ==
  pc \in AfterCharacters =>
    /\ \A a, b \in 1..Len(characters) :
         a # b => characters[a].name # characters[b].name
    /\ \A pl \in cueLines :
         (/\ Len(rawLines(pl[1])) = Len(analyzedPages[pl[1]].formattedLines)
          /\ trim(rawLines(pl[1])[pl[2]])[1] # "(") =>
           analyzedPages[pl[1]].formattedLines[pl[2]].text
             = canonicalCue(rawLines(pl[1])[pl[2]])
    /\ \A k \in 1..Len(scenes) : \A n \in 1..Len(scenes[k].actors) :
         \E c \in 1..Len(characters) : characters[c].name = scenes[k].actors[n]
    /\ \A c \in 1..Len(characters) :
         characters[c].lines = Cardinality(spokenBy(characters[c].name))

\* C12 witness: MARY speaks once under the plain cue and once under the cue
\* with (O.S.), and the roster is one Character with two lines
FoldedCue ==
  /\ pc = "done"
  /\ \E a, b \in cueLines :
       /\ trim(rawLines(a[1])[a[2]]) = <<"M","A","R","Y">>
       /\ trim(rawLines(b[1])[b[2]]) = <<"M","A","R","Y"," ","(","O",".","S",".",")">>
  /\ Len(characters) = 1
  /\ characters[1].name = <<"M","A","R","Y">>
  /\ characters[1].lines = 2

\* the heading up to its first white-space character: the prefix
headingPrefix(h) ==
  IF \A i \in 1..Len(h) : h[i] \notin SpaceSet THEN h
  ELSE SubSeq(h, 1, (CHOOSE i \in 1..Len(h) :
                       h[i] \in SpaceSet /\ \A j \in 1..(i - 1) : h[j] \notin SpaceSet) - 1)

\* the heading after its prefix
afterPrefix(h) == trim(SubSeq(h, Len(headingPrefix(h)) + 1, Len(h)))

\* a prefix and a location of capital letters and spaces, no time of day
plainHeading(h) ==
  /\ toUpperCase(stripPeriods(headingPrefix(h))) \in HeadingPrefixes
  /\ Len(afterPrefix(h)) > 0
  /\ \A i \in 1..Len(afterPrefix(h)) : afterPrefix(h)[i] \in UpperSet \cup {" "}
  /\ \A w \in TimesOfDay : ~includes(afterPrefix(h), w)

defaultsApplied(ss) ==
  \A k \in 1..Len(ss) :
    plainHeading(ss[k].heading) =>
      /\ ss[k].timeOfDay = <<"D","A","Y">>
      /\ ss[k].location = afterPrefix(ss[k].heading)

\* C13: a scene whose heading is a prefix and a location without a time of
\* day has timeOfDay DAY and the text after the prefix as its location, after
\* the upload parse and after the re-analysis
NoTimeHeading ==
  /\ pc \in AfterScenes => defaultsApplied(scenes)
  /\ pc = "reanalyzed" => defaultsApplied(docScenes)

intExtOfPrefix(ss) ==
  \A k \in 1..Len(ss) :
    /\ ss[k].intExt = toUpperCase(stripPeriods(headingPrefix(ss[k].heading)))
    /\ ss[k].intExt \in HeadingPrefixes

\* C14: the intExt of every scene is the prefix of its own heading line with
\* the periods removed, in upper case, and one of INT, EXT, INT/EXT, I/E,
\* after the upload parse and after the re-analysis
IntExtFromPrefix ==
  /\ pc \in AfterScenes => intExtOfPrefix(scenes)
  /\ pc = "reanalyzed" => intExtOfPrefix(docScenes)

\* <<page, line>> of the lines as written that have the shape of a cue
shapedLines ==
  {pl \in UNION {{<<p, i>> : i \in 1..Len(rawLines(p))} : p \in 1..Len(analyzedPages)} :
     looksLikeCharacterName(rawLines(pl[1])[pl[2]])}

\* the cue-shaped lines immediately followed by another one
linesBeforeCue(shaped) == {pl \in shaped : <<pl[1], pl[2] + 1>> \in shaped}

namesOn(pls) == {cleanCharacterName(rawLines(pl[1])[pl[2]]) : pl \in pls}

\* the names written only on lines that another cue-shaped line follows
unansweredNames(shaped, before) == namesOn(before) \ namesOn(shaped \ before)

notRecorded(ss, names) ==
  \A name \in names : \A k \in 1..Len(ss) :
    /\ \A n \in 1..Len(ss[k].actors) : ss[k].actors[n] # name
    /\ \A n \in 1..Len(ss[k].dialogue) : ss[k].dialogue[n].character # name

\* C15: a cue-shaped line immediately followed by another cue-shaped line is
\* not classified as a character, and a name written only on such lines is
\* in no scene's actors and speaks no dialogue entry, after the upload parse
\* and after the re-analysis by analyzeScenes
NoCueBeforeCue ==
  pc \in AfterAnalyzed =>
    LET shaped == shapedLines
        before == linesBeforeCue(shaped)
        names == unansweredNames(shaped, before)
    IN  /\ \A pl \in before :
             Len(rawLines(pl[1])) = Len(analyzedPages[pl[1]].formattedLines) =>
               analyzedPages[pl[1]].formattedLines[pl[2]].type # "character"
        /\ pc \in AfterScenes => notRecorded(scenes, names)
        /\ pc = "reanalyzed" => notRecorded(docScenes, names)

LineTypes ==
  {"scene_heading", "transition", "character", "parenthetical", "dialogue",
   "action", "empty"}

\* C16: every line emitted by formatPageLines (AdvancedScriptParser) and by
\* analyzePageLines (HybridScriptParser) has a type in the closed set
\* scene_heading, transition, character, parenthetical, dialogue, action,
\* empty
LineTypesClosed ==
  /\ pc \in AfterAnalyzed =>
       \A p \in 1..Len(analyzedPages) :
         \A n \in 1..Len(analyzedPages[p].formattedLines) :
           analyzedPages[p].formattedLines[n].type \in LineTypes
  /\ (pc = "segmented" /\ segPages.parser = "hybrid") =>
       \A p \in 1..Len(segPages.result.pages) :
         \A n \in 1..Len(segPages.result.pages[p].formatted) :
           segPages.result.pages[p].formatted[n].type \in LineTypes

(***************************************************************************)
(* Two calls of parse on the exported AdvancedScriptParser instance.  The  *)
(* class has no constructor and assigns no field of this; a call keeps     *)
(* buffer, result and everything derived from them in its own locals.  The *)
(* event loop resumes a call at each await: readFile, getText, destroy.    *)
(* calls.call[p] holds the locals of call p, calls.order the resumptions.  *)
(***************************************************************************)
MaxParPieces == 1

InitPar ==
  /\ InitWith({<<>>}, {0})
  /\ calls \in
       {[call |-> [p \in 1..2 |->
                     [pc |-> "start", file |-> fs[p], buffer |-> Null,
                      result |-> Null, returned |-> Null]],
         order |-> <<>>] :
          fs \in [1..2 -> {[text |-> t, total |-> 1] :
                             t \in TextsOf({<<"I","N","T","."," ","C","A","R">>,
                                            <<"E","X","T","."," ","B","A","R"," ","-"," ","N","I","G","H","T","\n","J","O","H","N","\n","H","e","l","l","o",".">>},
                                           MaxParPieces)}]}

\* the synchronous part of parse, from the pages to the returned object
parseReturn(analyzed, ss) ==
  [textPages |-> analyzed,
   scenes |-> ss,
   characters |-> extractCharacters(ss),
   metadata |-> generateMetadata(analyzed, ss, extractCharacters(ss))]

parseAnalyzed(analyzed) == parseReturn(analyzed, parseScenes(analyzed))

parseSync(t, total) == parseAnalyzed(analyzePages(extractTextPages(t, total).pages))

\* a result kept in one place for all calls: the latest getText wins
lastResult(c, p) ==
  LET n == CHOOSE n \in 1..Len(c.order) :
             /\ c.order[n][2] = "getText"
             /\ \A m \in (n + 1)..Len(c.order) : c.order[m][2] # "getText"
  IN  c.call[c.order[n][1]].result

\* const result = await parser.getText(): a local of call p
ownResult(c, p) == c.call[p].result

\* const buffer = await fs.readFile(filePath)
ReadFile(p) ==
  /\ calls.call[p].pc = "start"
  /\ calls' = [calls EXCEPT !.call[p].pc = "read",
                            !.call[p].buffer = calls.call[p].file,
                            !.order = Append(@, <<p, "readFile">>)]
  /\ UNCHANGED <<pc, text, totalPages, tier, textPages, analyzedPages, scenes,
                 characters, metadata, docScenes, segPages>>

\* const result = await parser.getText()
GetText(p) ==
  /\ calls.call[p].pc = "read"
  /\ calls' = [calls EXCEPT !.call[p].pc = "text",
                            !.call[p].result = calls.call[p].buffer,
                            !.order = Append(@, <<p, "getText">>)]
  /\ UNCHANGED <<pc, text, totalPages, tier, textPages, analyzedPages, scenes,
                 characters, metadata, docScenes, segPages>>

\* await parser.destroy(), then the rest of parse up to its return
Destroy(p) ==
  /\ calls.call[p].pc = "text"
  /\ calls' = [calls EXCEPT
                 !.call[p].pc = "done",
                 !.call[p].returned = parseSync(ownResult(calls, p).text,
                                                ownResult(calls, p).total),
                 !.order = Append(@, <<p, "destroy">>)]
  /\ UNCHANGED <<pc, text, totalPages, tier, textPages, analyzedPages, scenes,
                 characters, metadata, docScenes, segPages>>

\* the awaited promise rejects: catch logs and rethrows
AwaitRejects(p) ==
  /\ calls.call[p].pc \in {"start", "read", "text"}
  /\ calls' = [calls EXCEPT !.call[p].pc = "thrown",
                            !.order = Append(@, <<p, "throw">>)]
  /\ UNCHANGED <<pc, text, totalPages, tier, textPages, analyzedPages, scenes,
                 characters, metadata, docScenes, segPages>>

NextPar ==
  \E p \in 1..2 :
    \/ ReadFile(p)
    \/ GetText(p)
    \/ Destroy(p)
    \/ AwaitRejects(p)

SpecPar == InitPar /\ [][NextPar]_vars

\* C17: whatever the interleaving of two parse calls at their await points,
\* each call returns what parse returns for its own file when run alone
CallsIndependent ==
  \A p \in 1..2 :
    calls.call[p].pc = "done" =>
      calls.call[p].returned
        = parseSync(calls.call[p].file.text, calls.call[p].file.total)

\* C17 witness: two calls on different files were resumed in alternation at
\* every await, and both have returned, with different scenes
CallsInterleaved ==
  /\ calls.call[1].pc = "done"
  /\ calls.call[2].pc = "done"
  /\ calls.order = <<<<1, "readFile">>, <<2, "readFile">>, <<1, "getText">>,
                     <<2, "getText">>, <<1, "destroy">>, <<2, "destroy">>>>
  /\ calls.call[1].file # calls.call[2].file
  /\ Len(calls.call[1].returned.scenes) > 0
  /\ calls.call[1].returned.scenes # calls.call[2].returned.scenes

\* the type of line i under the stated order of the rules: empty, dropped
\* page marker ("skip"), scene_heading, transition, parenthetical,
\* character, dialogue after a chained line, action
firstMatch(lines, i, formatted) ==
  LET trimmed == trim(lines[i])
  IN  IF Len(trimmed) = 0 THEN "empty"
      ELSE IF isPageNumber(trimmed) \/ isPageFooter(trimmed) THEN "skip"
      ELSE IF isSceneHeading(trimmed) THEN "scene_heading"
      ELSE IF isTransition(trimmed) THEN "transition"
      ELSE IF isParenthetical(trimmed) THEN "parenthetical"
      ELSE IF isCharacterName(trimmed, lines, i) THEN "character"
      ELSE IF Len(formatted) > 0 /\ formatted[Len(formatted)].type \in ChainTypes
        THEN "dialogue"
      ELSE "action"

\* C18: formatPageLines gives every line the type of the first rule it
\* matches in the order empty, dropped page marker, scene_heading,
\* transition, parenthetical, character, dialogue, action: a line wrapped in
\* parentheses that passes the cue test is a parenthetical, a heading that
\* names a transition is a scene_heading
RulesInOrder ==
  pc \in AfterAnalyzed =>
    \A p \in 1..Len(analyzedPages) :
      LET lines == rawLines(p)
          formatted == analyzedPages[p].formattedLines
      IN  Len(lines) = Len(formatted) =>
            \A i \in 1..Len(lines) :
              formatted[i].type = firstMatch(lines, i, SubSeq(formatted, 1, i - 1))

\* the scene a line of the stream belongs to: the headings up to it
sceneOf(all, n) == Cardinality({m \in 1..n : all[m].type = "scene_heading"})

\* the indexes of the lines of one type in scene k, in stream order
linesOfType(all, k, type) ==
  SelectSeq([n \in 1..Len(all) |-> n],
            LAMBDA n : all[n].type = type /\ sceneOf(all, n) = k)

\* the first line after cue i that is outside its chained block
afterBlock(all, i) ==
  IF \A n \in (i + 1)..Len(all) : all[n].type \in {"dialogue", "parenthetical", "empty"}
    THEN Len(all) + 1
    ELSE CHOOSE n \in (i + 1)..Len(all) :
           /\ all[n].type \notin {"dialogue", "parenthetical", "empty"}
           /\ \A m \in (i + 1)..(n - 1) :
                all[m].type \in {"dialogue", "parenthetical", "empty"}

\* the dialogue lines of the chained block of cue i, joined with spaces
blockText(all, i) ==
  join([m \in 1..Len(SelectSeq([n \in 1..(afterBlock(all, i) - i - 1) |-> all[i + n]],
                               LAMBDA l : l.type = "dialogue")) |->
          SelectSeq([n \in 1..(afterBlock(all, i) - i - 1) |-> all[i + n]],
                    LAMBDA l : l.type = "dialogue")[m].text],
       <<" ">>)

\* the names in first-seen order, each once
firstSeen(names) ==
  LET kept == SelectSeq([n \in 1..Len(names) |-> n],
                        LAMBDA n : \A m \in 1..(n - 1) : names[m] # names[n])
  IN  [n \in 1..Len(kept) |-> names[kept[n]]]

\* the dialogue entries the cues of scene k give: one per cue whose block
\* has a dialogue line
blockEntries(all, k) ==
  LET cues == linesOfType(all, k, "character")
  IN  SelectSeq([n \in 1..Len(cues) |->
                   [character |-> all[cues[n]].text, text |-> blockText(all, cues[n])]],
                LAMBDA e : Len(e.text) > 0)

\* C19: in every scene the actors are the cue names in first-seen order,
\* each once; every cue gives at most one dialogue entry, the dialogue lines
\* of its chained block joined with single spaces; and the main loop resumes
\* at the first line outside the block: when that line is an action it is
\* among the scene's actions
CueBlocks ==
  pc \in AfterScenes =>
    LET all == stream
    IN  \A k \in 1..Len(scenes) :
          LET cues == linesOfType(all, k, "character")
          IN  /\ scenes[k].actors
                   = firstSeen([n \in 1..Len(cues) |-> all[cues[n]].text])
              /\ scenes[k].dialogue = blockEntries(all, k)
              /\ \A n \in 1..Len(cues) :
                   LET next == afterBlock(all, cues[n])
                   IN  (next <= Len(all) /\ all[next].type = "action") =>
                         \E a \in 1..Len(scenes[k].actions) :
                           scenes[k].actions[a] = all[next].text

\* C20: the actions of every scene are the action lines between its heading
\* and the next, in order, so that no transition is among them, and every
\* action line and every transition line of the scene is a line of its text
ActionsAndTransitions ==
  pc \in AfterScenes =>
    LET all == stream
    IN  \A k \in 1..Len(scenes) :
          LET acts == linesOfType(all, k, "action")
              trans == linesOfType(all, k, "transition")
              textLines == split(scenes[k].text, "\n")
          IN  /\ scenes[k].actions = [n \in 1..Len(acts) |-> all[acts[n]].text]
              /\ \A n \in 1..Len(acts) :
                   \E t \in 1..Len(textLines) : textLines[t] = all[acts[n]].text
              /\ \A n \in 1..Len(trans) :
                   \E t \in 1..Len(textLines) : textLines[t] = all[trans[n]].text

\* the state parseScenes enters its main loop in: nothing pushed, no open scene
loopStart == [i |-> 1, scenes |-> <<>>, current |-> <<>>, sceneLines |-> <<>>]

\* the states of the main loop on the stream all, one per iteration, from st on
RECURSIVE loopStates(_, _)
loopStates(all, st) ==
  IF st.i > Len(all) THEN <<st>>
  ELSE <<st>> \o loopStates(all, parseStep(all, st))

isPrefixOf(a, b) == Len(a) <= Len(b) /\ SubSeq(b, 1, Len(a)) = a

\* C21: a scene that has been pushed is never changed afterwards: the scenes
\* pushed when any iteration of the main loop begins are, unchanged and in the
\* same places, the first scenes after the next iteration and the first scenes
\* of the scenes parseScenes returns
PushedScenesFrozen ==
  pc = "scenes" =>
    LET tr == loopStates(stream, loopStart)
    IN  \A k \in 1..Len(tr) :
          /\ isPrefixOf(tr[k].scenes, scenes)
          /\ k < Len(tr) => isPrefixOf(tr[k].scenes, tr[k + 1].scenes)

\* a first scene was pushed at the second heading, and a cue with dialogue and
\* a third heading came after it
LinesAfterPushedScene ==
  /\ pc = "scenes"
  /\ Len(scenes) >= 3
  /\ Len(scenes[2].dialogue) > 0
  /\ Len(scenes[1].text) > 0

\* the lines of the stream from the first scene heading onward
streamFromFirstHeading(all) ==
  IF headingIndexes(all) = {} THEN <<>>
  ELSE SubSeq(all, Len(all) - Len(fromFirstHeading(all)) + 1, Len(all))

\* C22: the lines before the first scene heading are discarded: the scenes
\* are those parsed from the stream without these lines, so that no text,
\* action, dialogue or actor comes from them, and the roster is the roster of
\* these scenes
LinesBeforeFirstHeadingDiscarded ==
  pc = "characters" =>
    LET kept == lastSceneSaved(parseLoop(streamFromFirstHeading(stream), loopStart))
    IN  /\ scenes = kept
        /\ characters = extractCharacters(kept)
        /\ headingIndexes(stream) = {} => (scenes = <<>> /\ characters = <<>>)

\* a cue with its dialogue stands before the first scene heading
CueBeforeFirstHeading ==
  /\ pc = "characters"
  /\ Len(scenes) > 0
  /\ \E n \in 1..Len(stream) :
       /\ stream[n].type = "character"
       /\ \A m \in headingIndexes(stream) : n < m
       /\ n < Len(stream) /\ stream[n + 1].type \in {"dialogue", "parenthetical"}

\* the first line from j on that is a non-blank character, scene_heading or
\* transition line, or the end of the stream
nextStructural(all, j) ==
  LET marks == {n \in j..Len(all) :
                  /\ Len(trim(all[n].text)) > 0
                  /\ all[n].type \in {"character", "scene_heading", "transition"}}
  IN  IF marks = {} THEN Len(all) + 1
      ELSE CHOOSE n \in marks : \A m \in marks : n <= m

\* a scene as it is right after its heading
openedScene ==
  [sceneNumber |-> 1, pageNumber |-> 1, heading |-> <<>>, location |-> <<>>,
   intExt |-> <<>>, timeOfDay |-> <<>>, dialogue |-> <<>>, actions |-> <<>>,
   actors |-> <<>>, text |-> <<>>]

\* C23: parseScenes terminates: from every index of the stream, with or
\* without an open scene, one iteration of the main loop moves the index
\* forward and at most to the end of the stream, and the dialogue-collection
\* loop begun after line i stops between i + 1 and the next character,
\* scene_heading or transition line, or the end of the stream
LoopAdvances ==
  pc \in {"analyzed", "scenes"} =>
    \A i \in 1..Len(stream) :
      /\ \A cur \in {<<>>, <<openedScene>>} :
           LET after == parseStep(stream, [i |-> i, scenes |-> <<>>,
                                           current |-> cur, sceneLines |-> <<>>])
           IN  after.i > i /\ after.i <= Len(stream) + 1
      /\ collectDialogue(stream, i + 1, <<>>, <<>>).j
           \in (i + 1)..nextStructural(stream, i + 1)

\* a cue was followed by a block of at least two lines that the
\* dialogue-collection loop consumed
BlockConsumed ==
  /\ pc = "scenes"
  /\ \E i \in 1..Len(stream) :
       /\ stream[i].type = "character"
       /\ \E m \in headingIndexes(stream) : m < i
       /\ collectDialogue(stream, i + 1, <<>>, <<>>).j > i + 2

\* the lines of the pages' texts, in page order
RECURSIVE pageTextLines(_)
pageTextLines(pages) ==
  IF Len(pages) = 0 THEN <<>>
  ELSE split(pages[1].rawText, "\n") \o pageTextLines(Tail(pages))

RECURSIVE sumLineCount(_)
sumLineCount(pages) ==
  IF Len(pages) = 0 THEN 0 ELSE pages[1].lineCount + sumLineCount(Tail(pages))

\* the lines that carry text, without the white space around them
contentLines(lines) ==
  LET kept == SelectSeq(lines, notBlank)
  IN  [n \in 1..Len(kept) |-> trim(kept[n])]

nonMarkerLines(t, total) ==
  LET lines == split(t, "\n")
      pageBreaks == findPageBreaks(lines, 1, total)
      kept == SelectSeq([n \in 1..Len(lines) |-> n],
                        LAMBDA n : \A b \in 1..Len(pageBreaks) :
                                      pageBreaks[b].lineIndex # n)
  IN  [n \in 1..Len(kept) |-> lines[kept[n]]]

\* C25: when detectPagesByPageNumbers returns pages, every line of the text
\* that is not a marker is a line of exactly one page, in the order of the
\* text, the lines before the first marker included (the lines compared are
\* those with text)
NoContentLost ==
  (pc = "pages" /\ tier = 2) =>
    contentLines(pageTextLines(textPages))
      = contentLines(nonMarkerLines(text, totalPages))

\* the same lines, in the same order, as one page
asOnePage(pages) ==
  <<[pageNumber |-> 1,
     rawText |-> join([n \in 1..Len(pages) |-> pages[n].rawText], <<"\n">>),
     lineCount |-> Len(pageTextLines(pages))]>>

withoutPageNumber(ss) == [n \in 1..Len(ss) |-> [ss[n] EXCEPT !.pageNumber = 0]]

\* C26: the scenes depend on the sequence of lines only, not on where the
\* pages end: the scenes parsed from the pages and the scenes parsed from the
\* same lines as a single page differ at most in pageNumber
PageBoundariesIrrelevant ==
  (pc \in AfterScenes /\ Len(textPages) > 0) =>
    withoutPageNumber(scenes)
      = withoutPageNumber(parseScenes(analyzePages(asOnePage(textPages))))

\* the lines of a page that the dialogue collection begun at cue i goes over
\* and adds to the entry's text
collectedAfter(lines, i) ==
  {j \in (i + 1)..Len(lines) :
     /\ Len(trim(lines[j])) > 0
     /\ \A m \in (i + 1)..j :
          \/ Len(trim(lines[m])) = 0
          \/ ~(docIsCharacterName(trim(lines[m]), lines, m)
               \/ docIsSceneHeading(trim(lines[m])))}

\* C27: in analyzeScenes a line collected into the text of a dialogue entry
\* is not among the actions of the scene: for no cue of a page whose collected
\* lines make the text of an entry of a scene is one of these lines an action
\* of that scene
DialogueNotInActions ==
  pc = "reanalyzed" =>
    \A p \in 1..Len(analyzedPages) :
      LET lines == split(analyzedPages[p].rawText, "\n")
      IN  \A i \in 1..Len(lines) :
            docIsCharacterName(trim(lines[i]), lines, i) =>
              \A s \in 1..Len(docScenes) :
                \A d \in 1..Len(docScenes[s].dialogue) :
                  (/\ docScenes[s].dialogue[d].character
                        = docCleanCharacterName(trim(lines[i]))
                   /\ docScenes[s].dialogue[d].text
                        = trim(docCollect(lines, i + 1, <<>>)))
                  => \A j \in collectedAfter(lines, i) :
                       \A a \in 1..Len(docScenes[s].actions) :
                         docScenes[s].actions[a] # trim(lines[j])

(***************************************************************************)
(* Two reanalyzeScript calls for the same script (script.service.js).  The *)
(* awaited database statements of the two calls interleave; calls holds    *)
(* the locals of each call and the stored rows of the script.              *)
(***************************************************************************)
MaxRePages == 1

\* the data of scene.createMany: `x || d` takes d when x is empty or 0
sceneRows(ss) ==
  [index \in 1..Len(ss) |->
     [sceneNumber |-> IF ss[index].sceneNumber = 0 THEN index
                      ELSE ss[index].sceneNumber,
      page |-> IF ss[index].pageNumber = 0 THEN 1 ELSE ss[index].pageNumber,
      heading |-> IF Len(ss[index].heading) = 0
                    THEN <<"S","c","e","n","e"," ">> \o String(index) ELSE ss[index].heading,
      location |-> IF Len(ss[index].location) = 0
                     THEN <<"U","n","k","n","o","w","n">> ELSE ss[index].location,
      intExt |-> IF Len(ss[index].intExt) = 0 THEN <<"I","N","T">> ELSE ss[index].intExt,
      timeOfDay |-> IF Len(ss[index].timeOfDay) = 0
                      THEN <<"D","A","Y">> ELSE ss[index].timeOfDay,
      sceneText |-> ss[index].text,
      actors |-> ss[index].actors,
      order |-> index - 1]]

\* the data of character.createMany
characterRows(cs) ==
  [n \in 1..Len(cs) |->
     [name |-> cs[n].name, lines |-> cs[n].lines, scenes |-> cs[n].scenes,
      dialogue |-> cs[n].dialogue, sceneIds |-> cs[n].sceneIds]]

\* DocumentBasedScriptParser.generateMetadata
docGenerateMetadata(pages, ss, cs) ==
  LET RECURSIVE total(_, _)
      total(k, field) ==
        IF k > Len(ss) THEN 0 ELSE Len(ss[k][field]) + total(k + 1, field)
  IN  [totalPages |-> Len(pages), scenes |-> Len(ss), characters |-> Len(cs),
       totalDialogue |-> total(1, "dialogue"),
       totalActions |-> total(1, "actions")]

\* the stored pages are pages of screenplay text, numbered from 1; the stored
\* scenes and characters are those of an earlier analysis of some pages
InitRe ==
  /\ InitWith({<<>>}, {0})
  /\ \E texts, earlier \in UNION {[1..k -> {<<"I","N","T","."," ","C","A","R">>, <<"E","X","T","."," ","B","A","R"," ","-"," ","N","I","G","H","T","\n","J","O","H","N","\n","H","e","l","l","o",".">>}] :
                                    k \in 0..MaxRePages} :
       LET pagesOf(ts) == [n \in 1..Len(ts) |->
                             [pageNumber |-> n, rawText |-> ts[n],
                              lineCount |-> Len(split(ts[n], "\n"))]]
           old == analyzeScenes(pagesOf(earlier))
       IN  calls = [call |-> [p \in 1..2 |->
                                [pc |-> "start", scenes |-> Null,
                                 characters |-> Null, metadata |-> Null]],
                    pages |-> pagesOf(texts),
                    scenes |-> sceneRows(old),
                    characters |-> characterRows(extractCharacters(old)),
                    metadata |-> Null]

\* getScriptById, scriptPage.findMany ordered by pageNumber and, without an
\* await in between, the analysis of the pages found
FindPages(p) ==
  /\ calls.call[p].pc = "start"
  /\ LET pages == sortByPageNumber(calls.pages)
         ss == analyzeScenes(pages)
         cs == extractCharacters(ss)
     IN  calls' = IF Len(pages) = 0
                    THEN [calls EXCEPT !.call[p].pc = "thrown"]
                    ELSE [calls EXCEPT !.call[p].pc = "analyzed",
                                       !.call[p].scenes = ss,
                                       !.call[p].characters = cs,
                                       !.call[p].metadata =
                                          docGenerateMetadata(pages, ss, cs)]
  /\ UNCHANGED <<pc, text, totalPages, tier, textPages, analyzedPages, scenes,
                 characters, metadata, docScenes, segPages>>

\* prisma.$transaction([scene.deleteMany, character.deleteMany])
DeleteOld(p) ==
  /\ calls.call[p].pc = "analyzed"
  /\ calls' = [calls EXCEPT !.call[p].pc = "deleted",
                            !.scenes = <<>>,
                            !.characters = <<>>]
  /\ UNCHANGED <<pc, text, totalPages, tier, textPages, analyzedPages, scenes,
                 characters, metadata, docScenes, segPages>>

\* a table without the unique index
noUniqueIndex(stored, rows, key) == FALSE

\* the unique indexes scenes(scriptId, sceneNumber) and characters(scriptId,
\* name): an insert of rows fails when a key is stored or comes twice
uniqueViolation(stored, rows, key) ==
  \/ \E a \in 1..Len(stored), b \in 1..Len(rows) : stored[a][key] = rows[b][key]
  \/ \E a, b \in 1..Len(rows) : a # b /\ rows[a][key] = rows[b][key]

\* scene.createMany when there are scenes: one insert, all rows or none
CreateScenes(p) ==
  /\ calls.call[p].pc = "deleted"
  /\ LET rows == sceneRows(calls.call[p].scenes)
     IN  calls' = IF Len(rows) = 0
                    THEN [calls EXCEPT !.call[p].pc = "scenes"]
                  ELSE IF uniqueViolation(calls.scenes, rows, "sceneNumber")
                    THEN [calls EXCEPT !.call[p].pc = "thrown"]
                  ELSE [calls EXCEPT !.call[p].pc = "scenes",
                                     !.scenes = calls.scenes \o rows]
  /\ UNCHANGED <<pc, text, totalPages, tier, textPages, analyzedPages, scenes,
                 characters, metadata, docScenes, segPages>>

\* character.createMany when there are characters
CreateCharacters(p) ==
  /\ calls.call[p].pc = "scenes"
  /\ LET rows == characterRows(calls.call[p].characters)
     IN  calls' = IF Len(rows) = 0
                    THEN [calls EXCEPT !.call[p].pc = "characters"]
                  ELSE IF uniqueViolation(calls.characters, rows, "name")
                    THEN [calls EXCEPT !.call[p].pc = "thrown"]
                  ELSE [calls EXCEPT !.call[p].pc = "characters",
                                     !.characters = calls.characters \o rows]
  /\ UNCHANGED <<pc, text, totalPages, tier, textPages, analyzedPages, scenes,
                 characters, metadata, docScenes, segPages>>

\* script.update({ metadata, updatedAt }) and the return
UpdateScript(p) ==
  /\ calls.call[p].pc = "characters"
  /\ calls' = [calls EXCEPT !.call[p].pc = "done",
                            !.metadata = calls.call[p].metadata]
  /\ UNCHANGED <<pc, text, totalPages, tier, textPages, analyzedPages, scenes,
                 characters, metadata, docScenes, segPages>>

NextRe ==
  \E p \in 1..2 :
    \/ FindPages(p)
    \/ DeleteOld(p)
    \/ CreateScenes(p)
    \/ CreateCharacters(p)
    \/ UpdateScript(p)

SpecRe == InitRe /\ [][NextRe]_vars

bothCompleted == \A p \in 1..2 : calls.call[p].pc \in {"done", "thrown"}

\* C28: once both calls have completed, in whatever order their database
\* statements ran, the stored scenes and characters are those of one analysis
\* of the stored pages, and no sceneNumber and no character name is stored
\* twice (with no page stored, both calls throw and the rows are left as
\* they were)
SingleAnalysisStored ==
  (bothCompleted /\ Len(calls.pages) > 0) =>
    LET ss == analyzeScenes(sortByPageNumber(calls.pages))
    IN  /\ calls.scenes = sceneRows(ss)
        /\ calls.characters = characterRows(extractCharacters(ss))
        /\ \A a, b \in 1..Len(calls.scenes) :
             a # b => calls.scenes[a].sceneNumber # calls.scenes[b].sceneNumber
        /\ \A a, b \in 1..Len(calls.characters) :
             a # b => calls.characters[a].name # calls.characters[b].name

\* the two calls deleted one after the other and then both inserted: the
\* second insert failed on the unique index and its call threw
SecondInsertRejected ==
  /\ bothCompleted
  /\ \E p, q \in 1..2 : calls.call[p].pc = "done" /\ calls.call[q].pc = "thrown"
  /\ Len(calls.scenes) > 0
  /\ Len(calls.characters) > 0

(***************************************************************************)
(* MediaAIService.generateImage and pollFreepikGeneration (the media AI    *)
(* service).  calls holds one generateImage call: the script row it reads, *)
(* the clock in hours, the locals of the call and of the background poll,  *)
(* and the status of the generation record.                                *)
(***************************************************************************)
maxPolls == 60

\* a script whose metadata may hold a cached summary, generated before or
\* after the script's last update and for the current or an older version
InitMedia ==
  /\ InitWith({<<>>}, {0})
  /\ \E cached, hasScenes \in BOOLEAN, generatedAt \in {0, 10},
        updatedAt \in {0, 20}, version \in {1, 2} :
       /\ ~cached => generatedAt = 0
       /\ calls = [pc |-> "start",
                   now |-> 30,
                   script |-> [aiSummary |-> IF cached THEN "cached" ELSE "none",
                               aiSummaryGeneratedAt |-> generatedAt,
                               aiSummaryVersion |-> 1,
                               updatedAt |-> updatedAt,
                               version |-> version,
                               hasScenes |-> hasScenes],
                   needsSummary |-> FALSE,
                   scriptSummary |-> "none",
                   status |-> "none",
                   taskStatus |-> "none",
                   pollCount |-> 0,
                   fileSaved |-> FALSE]

\* const needsSummary = await this.shouldRegenerateSummary(scriptId)
ShouldRegenerateSummary ==
  /\ calls.pc = "start"
  /\ LET script == calls.script
         cacheAgeHours == calls.now - script.aiSummaryGeneratedAt
     IN  calls' = [calls EXCEPT
           !.pc = "checked",
           !.needsSummary =
              \/ script.aiSummary = "none"
              \/ script.updatedAt > script.aiSummaryGeneratedAt
              \/ script.version > script.aiSummaryVersion
              \/ cacheAgeHours > 24]
  /\ UNCHANGED <<pc, text, totalPages, tier, textPages, analyzedPages, scenes,
                 characters, metadata, docScenes, segPages>>

\* needsSummary ? this.getScriptSummary(scriptId)
\*              : this.getScriptSummary(scriptId, false):
\* forceRegenerate is false on both sides
GetScriptSummary ==
  /\ calls.pc = "checked"
  /\ LET script == calls.script
         forceRegenerate == IF calls.needsSummary THEN FALSE ELSE FALSE
         hasValidCache == script.aiSummary # "none" /\ ~forceRegenerate
         cacheAgeHours == calls.now - script.aiSummaryGeneratedAt
     IN  calls' =
           IF hasValidCache /\ cacheAgeHours < 24
             THEN [calls EXCEPT !.pc = "context",
                                !.scriptSummary = script.aiSummary]
           ELSE IF ~script.hasScenes
             THEN [calls EXCEPT !.pc = "context", !.scriptSummary = "none"]
           ELSE [calls EXCEPT !.pc = "context",
                              !.scriptSummary = "generated",
                              !.script.aiSummary = "generated",
                              !.script.aiSummaryGeneratedAt = calls.now,
                              !.script.aiSummaryVersion = script.version]
  /\ UNCHANGED <<pc, text, totalPages, tier, textPages, analyzedPages, scenes,
                 characters, metadata, docScenes, segPages>>

\* prisma.aIGeneration.create with status 'PROCESSING'
CreateGeneration ==
  /\ calls.pc = "context"
  /\ calls' = [calls EXCEPT !.pc = "created", !.status = "PROCESSING"]
  /\ UNCHANGED <<pc, text, totalPages, tier, textPages, analyzedPages, scenes,
                 characters, metadata, docScenes, segPages>>

\* axios.post to the provider: the task is created and the poll is started in
\* the background, or the request fails and the catch marks the record FAILED
PostFreepik ==
  /\ calls.pc = "created"
  /\ \E accepted \in BOOLEAN :
       calls' = IF accepted
                  THEN [calls EXCEPT !.pc = "polling",
                                     !.taskStatus = "IN_PROGRESS",
                                     !.pollCount = 0]
                  ELSE [calls EXCEPT !.pc = "returned", !.status = "FAILED"]
  /\ UNCHANGED <<pc, text, totalPages, tier, textPages, analyzedPages, scenes,
                 characters, metadata, docScenes, segPages>>

\* one iteration of the while loop: wait, ask the provider for the status of
\* the task; the provider answers with any of its statuses
Poll ==
  /\ calls.pc = "polling"
  /\ calls.taskStatus = "IN_PROGRESS" /\ calls.pollCount < maxPolls
  /\ \E answer \in {"CREATED", "IN_PROGRESS", "COMPLETED", "FAILED", "ERROR"},
        generated \in BOOLEAN :
       calls' = [calls EXCEPT
         !.taskStatus = answer,
         !.pollCount = calls.pollCount + 1,
         !.pc = IF answer = "COMPLETED"
                  THEN IF generated THEN "download" ELSE "catch"
                ELSE IF answer \in {"FAILED", "ERROR"} THEN "catch"
                ELSE "polling"]
  /\ UNCHANGED <<pc, text, totalPages, tier, textPages, analyzedPages, scenes,
                 characters, metadata, docScenes, segPages>>

\* axios.get of the image and fs.writeFileSync
SaveImage ==
  /\ calls.pc = "download"
  /\ calls' = [calls EXCEPT !.pc = "saved", !.fileSaved = TRUE]
  /\ UNCHANGED <<pc, text, totalPages, tier, textPages, analyzedPages, scenes,
                 characters, metadata, docScenes, segPages>>

\* prisma.aIGeneration.update with status 'COMPLETED', createAIAsset, return
MarkCompleted ==
  /\ calls.pc = "saved"
  /\ calls' = [calls EXCEPT !.pc = "returned", !.status = "COMPLETED"]
  /\ UNCHANGED <<pc, text, totalPages, tier, textPages, analyzedPages, scenes,
                 characters, metadata, docScenes, segPages>>

\* the while condition is false: a timeout is thrown when the status is still
\* IN_PROGRESS, else the function returns
LoopExit ==
  /\ calls.pc = "polling"
  /\ ~(calls.taskStatus = "IN_PROGRESS" /\ calls.pollCount < maxPolls)
  /\ calls' = [calls EXCEPT !.pc = IF calls.taskStatus = "IN_PROGRESS"
                                     THEN "catch" ELSE "returned"]
  /\ UNCHANGED <<pc, text, totalPages, tier, textPages, analyzedPages, scenes,
                 characters, metadata, docScenes, segPages>>

\* catch: prisma.aIGeneration.update with status 'FAILED'
MarkFailed ==
  /\ calls.pc = "catch"
  /\ calls' = [calls EXCEPT !.pc = "returned", !.status = "FAILED"]
  /\ UNCHANGED <<pc, text, totalPages, tier, textPages, analyzedPages, scenes,
                 characters, metadata, docScenes, segPages>>

NextMedia ==
  \/ ShouldRegenerateSummary
  \/ GetScriptSummary
  \/ CreateGeneration
  \/ PostFreepik
  \/ Poll
  \/ SaveImage
  \/ MarkCompleted
  \/ LoopExit
  \/ MarkFailed

\* every awaited call returns, so the call and its poll always take their
\* next step
SpecMedia == InitMedia /\ [][NextMedia]_vars /\ WF_vars(NextMedia)

\* C29: once the poll of a generation record has been started, the record
\* eventually leaves PROCESSING and is COMPLETED or FAILED, after at most
\* maxPolls polls and whatever statuses the provider answers, and it is
\* COMPLETED only when the image file has been saved
PollSettles ==
  /\ [](calls.pollCount <= maxPolls)
  /\ [](calls.status = "COMPLETED" => calls.fileSaved)
  /\ (calls.pc = "polling") ~> (calls.status \in {"COMPLETED", "FAILED"})

\* C30: when shouldRegenerateSummary answered true, the summary used for the
\* prompt is a newly generated one, and the cached summary is used only when
\* it answered false
StaleSummaryNotUsed ==
  (calls.pc \in {"context", "created", "polling", "returned"}
     /\ calls.scriptSummary # "none") =>
    (calls.needsSummary <=> calls.scriptSummary = "generated")

====
